---- MODULE Spec2Model ----
(***************************************************************************)
(* A model of s3-file-manager's transfer orchestration: the retried store  *)
(* operations of UploadManager, FileService, DownloadManager and           *)
(* S3FMContext.  One behaviour is one call of one public operation against *)
(* a store whose every answer is chosen nondeterministically.              *)
(*                                                                         *)
(* Sizes are counted in model units instead of bytes; a payload of length  *)
(* L is the byte sequence <<1, 2, ..., L>>, so that a lost, duplicated or  *)
(* reordered byte is visible.  An optional value (sizeHintBytes, uploadId, *)
(* a continuation token) is the empty sequence <<>> when undefined and the *)
(* one-element sequence <<v>> otherwise.  An error is the chain of its     *)
(* causes, outermost first: Head is the error, Tail its `cause`.           *)
(***************************************************************************)
EXTENDS Integers, Sequences, FiniteSets, TLC

\* ------------------------------------------------------------------ bounds
MaxAttemptsBound == 2
MaxPartSize == 2
MaxLen == 3
MaxPiece == 2
MaxCopyCalls == 4
\* The turns of a retry loop that are followed when maxAttempts does not end it.
MaxTries == 4
MaxUploads == 2
MaxFiles == 3
\* The files that downloadFolderToDisk's listItems returns.
MaxListed == 7

\* `maxUploadConcurrency ?? 4` in UploadManager's constructor
DefaultUploadConcurrency == 4

\* 200 * 1024 * 1024 in uploadManager.ts:248, in model units: above every
\* part size and every payload length of the model.
StreamBufferMax == 6

\* `timeoutMS = 10000` in getStream's options
DefaultTimeoutMS == 10000

\* context.ts: MAX_ATTEMPTS_DEFAULT and the part sizes, in bytes
MAX_ATTEMPTS_DEFAULT == 3
DEFAULT_UPLOAD_PART_SIZE == 10 * 1024 * 1024
MIN_UPLOAD_PART_SIZE == 5 * 1024 * 1024
MAX_UPLOAD_PART_SIZE == 100 * 1024 * 1024

\* `const BASE_DELAY_MS = 100` and backoffDelay's `cap = 10_000`
BASE_DELAY_MS == 100
BackoffCap == 10000

VARIABLES
    op,                 \* the public operation this behaviour runs
    maxAttempts,        \* S3FMContext.maxAttempts
    maxUploadPartSize,  \* S3FMContext.maxUploadPartSize
    file,               \* FilePayload: [type, len, hint, piece]
    pc,                 \* position in the operation's code
    attempt,            \* `let attempt` of the operation's retry loop
    partAttempt,        \* `let attempt` of uploadPartWithRetry
    uploadId,           \* `let uploadId: string | undefined` of multipartUpload
    parts,              \* `const parts: CompletedPart[]` of the current attempt
    partNumber,         \* `let partNumber` of the current attempt
    chunk,              \* loop variable of `for await (const chunk of fileChunks)`
    fileChunks,         \* the iterable built once by multipartUpload's preparation
    iter,               \* the iterator of the current for-await loop
    caught,             \* the error bound by the catch block being executed
    result,             \* value returned to the caller (<<>> while running)
    thrown,             \* error thrown to the caller (<<>> while running)
    sent,               \* store calls issued so far, per command
    warnCalls,          \* calls of logger.warn so far
    faults,             \* store calls answered with an error or without the field asked for
    sessions,           \* upload ids the store has issued
    completeLog,        \* one record per CompleteMultipartUpload call issued
    abortLog,           \* the UploadId of every AbortMultipartUpload call issued
    listing,            \* the pages the store answers ListObjectsV2 with
    listOptions,        \* listItems' options: [directoriesOnly, filterFn, compareFn]
    params,             \* listItems' `params`: [ContinuationToken]
    filteredItems,      \* listItems' `filteredItems`
    deleteAnswer,       \* the store's answer to the last DeleteObject call ("none" before)
    timeoutMS,          \* getStream's `timeoutMS`
    timers,             \* getStream's timers, one per attempt: [deadline, state]
    now,                \* the clock, in milliseconds
    waitArg,            \* the attempt number of the last `wait(backoffDelay(attempt))` (<<>> before)
    waitCount,          \* the waits taken so far
    maxConcurrent,      \* UploadManager.maxConcurrent, the limiter's maxConcurrent
    lastCommand,        \* per concurrent upload: the store call it last issued
    phase,              \* per concurrent upload: where that call (or the upload) stands
    queue,              \* the limiter's queue of jobs not yet started
    submitOrder,        \* the queued jobs in the order of their schedule() calls
    batchOp,            \* the batch operation this behaviour runs
    batchPc,            \* position in the batch operation's code
    names,              \* the items of the batch: file names, listed keys, filenames
    lastAnswer,         \* per item: the last answer of its transfer or head call
    status,             \* per item: its callback is "pending", "done" or "threw"
    headAttempt,        \* per item: `let attempt` of confirmFilesExist's loop
    headFaults,         \* per item: head calls that were answered with a transient error
    filePaths,          \* uploadMultipleFiles' `filePaths`
    skippedFiles,       \* uploadMultipleFiles' `skippedFiles`
    missingFiles,       \* confirmFilesExist's `missingFiles`
    batchResult,        \* value the batch operation returned (<<>> until then)
    batchThrown,        \* error the batch operation threw (<<>> until then)
    prefix,             \* the batch operation's `prefix` (<<>> when not given)
    allowVerboseLogging, \* S3FMContext.allowVerboseLogging
    config,             \* the FMConfig given to S3FMContext's constructor
    ctx,                \* the S3FMContext constructed from it (<<>> before)
    run,                \* repeated upload: the number of the run that executes
    uploadInput,        \* repeated upload: [name, prefix] given to every run
    runPc,              \* repeated upload: position in the run's code
    runAttempt,         \* repeated upload: `let attempt` of the run's simpleUpload
    putKeys,            \* repeated upload: per run, the Key of every PutObject call
    returnedKeys,       \* repeated upload: per run, the key returned (<<>> if none)
    dlPc,               \* position in downloadToDisk's code
    getAttempt,         \* `let attempt` of getStream's loop
    metaAttempt,        \* `let attempt` of getFileMetadata's loop
    calls,              \* the calls of the current run and their answers, in order
    fileMetadata,       \* downloadToDisk's `fileMetadata`
    stream,             \* the Body getStream returned, while unread (<<>> otherwise)
    fileBuffer,         \* `fileBuffer` (<<>> while undefined)
    outputFilename,     \* whether downloadToDisk was given options.outputFilename
    written,            \* what was written to the destination path, and how
    dlThrown,           \* error downloadToDisk threw (<<>> until then)
    firstRun,           \* how the first of the two runs went (NoRun during it)
    transfers,          \* per concurrent multipart upload: its closure's variables
    store,              \* the store's multipart sessions: per upload id, how it stands
    lastCall,           \* the multipart store call issued last, with its input
    downloads,          \* per listed file: where its downloadToDisk job stands
    downloadQueue       \* the download limiter's queue of jobs not yet started

listVars == <<listing, listOptions, params, filteredItems>>

vars == <<op, maxAttempts, maxUploadPartSize, file, pc, attempt, partAttempt,
          uploadId, parts, partNumber, chunk, fileChunks, iter, caught, result,
          thrown, sent, warnCalls, faults, sessions, completeLog, abortLog,
          listing, listOptions, params, filteredItems, deleteAnswer,
          timeoutMS, timers, now, waitArg, waitCount,
          maxConcurrent, lastCommand, phase, queue, submitOrder,
          batchOp, batchPc, names, lastAnswer, status, headAttempt, headFaults,
          filePaths, skippedFiles, missingFiles, batchResult, batchThrown,
          prefix, allowVerboseLogging, config, ctx,
          run, uploadInput, runPc, runAttempt, putKeys, returnedKeys,
          dlPc, getAttempt, metaAttempt, calls, fileMetadata,
          stream, fileBuffer, outputFilename, written, dlThrown, firstRun,
          transfers, store, lastCall, downloads, downloadQueue>>

\* The variables of the one-operation specification Spec.
coreVars == <<op, maxAttempts, maxUploadPartSize, file, pc, attempt, partAttempt,
              uploadId, parts, partNumber, chunk, fileChunks, iter, caught, result,
              thrown, sent, warnCalls, faults, sessions, completeLog, abortLog,
              listing, listOptions, params, filteredItems, deleteAnswer,
              timeoutMS, timers, now, waitArg, waitCount>>

\* The variables of the repeated-upload specification.
rerunVars == <<run, uploadInput, runPc, runAttempt, putKeys, returnedKeys>>

\* The variables of the constructor specification.
configVars == <<config, ctx>>

\* The variables of the concurrent multipart uploads.
sessionVars == <<transfers, store, lastCall>>

\* The variables of downloadFolderToDisk's limiter.
fanoutVars == <<downloads, downloadQueue>>

\* getStream's variables.
streamVars == <<timeoutMS, timers, now>>

\* The record of the waits between attempts.
waitVars == <<waitArg, waitCount>>

\* The variables of the limiter specification.
limiterVars == <<maxConcurrent, lastCommand, phase, queue, submitOrder>>

\* The variables of the batch specification.
batchRestVars == <<batchOp, batchPc, names, lastAnswer, status, headAttempt, headFaults,
                   filePaths, skippedFiles, missingFiles, batchResult, batchThrown,
                   prefix>>

batchVars == <<batchRestVars, allowVerboseLogging>>

\* The variables of the download specification.
downloadVars == <<dlPc, getAttempt, metaAttempt, calls, fileMetadata,
                  stream, fileBuffer, outputFilename, written, dlThrown, firstRun>>

\* The variables that Spec leaves alone.
auxVars == <<limiterVars, batchVars, configVars, sessionVars, fanoutVars, rerunVars, downloadVars>>

Commands == {"PutObject", "CreateMultipartUpload", "UploadPart",
             "CompleteMultipartUpload", "AbortMultipartUpload",
             "DeleteObject", "CopyObject", "ListObjectsV2", "GetSignedUrl",
             "GetObject"}

Operations == {"uploadFile", "deleteFile", "copyFile", "moveFile",
               "renameFile", "getTemporaryDownloadUrl", "listItems", "getStream"}

ContentTypes == {"string", "Buffer", "Uint8Array", "Blob", "Readable",
                 "ReadableStream"}

\* ------------------------------------------------------------ pure helpers
Min(a, b) == IF a < b THEN a ELSE b

\* Math.ceil(a / b) for a >= 0, b > 0
Ceil(a, b) == (a + b - 1) \div b

\* The bytes of a payload of length n.
Content(n) == [i \in 1..n |-> i]

\* buffer.subarray(start, end), 0-based and end-exclusive, clamped as Node does
Subarray(buffer, start, end) ==
    SubSeq(buffer, Min(start, Len(buffer)) + 1, Min(end, Len(buffer)))

RECURSIVE Concat(_)
Concat(chunks) ==
    IF chunks = <<>> THEN <<>> ELSE Head(chunks) \o Concat(Tail(chunks))

\* ------------------------------------------------------- S3FMContext
\* The error handleRetryErrorLogging throws: `new Error(..., { cause: error })`
RetryError(error) == <<[name |-> "Error", src |-> "handleRetryErrorLogging", at |-> 0]>> \o error

\* Mutant: the exhaustion test is met one attempt late.
RetriesExhausted_Late(att, max) == att = max + 1

\* handleRetryErrorLogging's test `attempt === this.maxAttempts`
RetriesExhausted(att, max) == att = max

\* Mutant: a single logger.warn per retry.
logRetryWarning_Once(warns) == warns + 1

\* logRetryWarning: logger.warn(`Attempt ...`) and logger.warn("Retrying...")
logRetryWarning(warns) == warns + 2

\* An error the store answers a call with; `at` is the ordinal of the call.
StoreError(name, command, at) == <<[name |-> name, src |-> command, at |-> at]>>

\* ------------------------------------------------------- UploadManager
isStreamType(t) == t \in {"Blob", "Readable", "ReadableStream"}

\* Mutant: sizeHintBytes is ignored.
SizeInBytes_Measured(f) ==
    IF f.type \in {"Readable", "ReadableStream"} THEN <<>> ELSE <<f.len>>

\* uploadFile's classification: `sizeHintBytes ?? <measured length>`, where a
\* Readable or a ReadableStream has no measured length.
SizeInBytes(f) ==
    IF f.hint # <<>> THEN f.hint
    ELSE IF f.type \in {"Readable", "ReadableStream"} THEN <<>>
    ELSE <<f.len>>

\* Mutant: a payload of exactly the part size goes multipart.
UseMultipart_AtLeast(size, partSize) == size = <<>> \/ size[1] >= partSize

\* uploadFile's routing test: `sizeInBytes === undefined || sizeInBytes > maxUploadPartSize`
UseMultipart(size, partSize) == size = <<>> \/ size[1] > partSize

\* multipartUpload's preparation test: `isStreamType(type) && (!size || size > 200 MiB)`
UseStreamToIterable(type, size) ==
    isStreamType(type) /\ (size = <<>> \/ size[1] = 0 \/ size[1] > StreamBufferMax)

\* The pieces in which the source of a stream payload delivers its bytes.
SourcePieces(f) ==
    [i \in 1..Ceil(f.len, f.piece) |->
        SubSeq(Content(f.len), (i - 1) * f.piece + 1, Min(i * f.piece, f.len))]

\* A source whose read number f.breaks fails (0: no read fails).
Broken(f) == f.breaks > 0

\* The error a broken source emits ('error' event of the stream, the rejection
\* of the async iterator).
ReadError == <<[name |-> "Error", src |-> "source stream", at |-> 0]>>

\* The place of the failing read in the sequence of reads (no byte of a
\* payload is 0).
ErrorPiece == <<0>>

\* What the reads of the source give, one after another: its pieces, up to
\* the read that fails.
SourceReads(f) ==
    IF Broken(f)
    THEN SubSeq(SourcePieces(f), 1, f.breaks - 1) \o <<ErrorPiece>>
    ELSE SourcePieces(f)

\* S3FMContext.streamToBuffer: Buffer.concat of every piece read
streamToBuffer(f) == Concat(SourcePieces(f))

\* Mutant: Math.floor instead of Math.ceil drops the last, shorter chunk.
bufferToChunks_Floor(buffer, partSize) ==
    [part \in 1..(Len(buffer) \div partSize) |->
        Subarray(buffer, (part - 1) * partSize, part * partSize)]

bufferToChunks(buffer, partSize) ==
    LET totalFileSize == Len(buffer)
        numberOfParts == Ceil(totalFileSize, partSize)
    IN  [part \in 1..numberOfParts |->
            LET start == (part - 1) * partSize
                end == Min(start + partSize, totalFileSize)
            IN  Subarray(buffer, start, end)]

\* The async generator streamToIterable, suspended `at` "start", at the yield
\* of the inner while loop ("inner"), at the final yield ("final"), or "done".
\* GenResume runs it from the test of the inner loop to its next yield or to its end
\* and returns the yielded chunk (<<chunk>>, or <<>> when done) and the new state.
RECURSIVE GenResume(_, _, _, _)
GenResume(buf, pos, pieces, partSize) ==
    IF Len(buf) >= partSize
    THEN [value |-> <<Subarray(buf, 0, partSize)>>, buf |-> buf, pos |-> pos, at |-> "inner"]
    ELSE IF pos < Len(pieces) /\ pieces[pos + 1] = ErrorPiece
    THEN [value |-> <<>>, buf |-> buf, pos |-> pos + 1, at |-> "threw"]
    ELSE IF pos < Len(pieces)
    THEN GenResume(buf \o pieces[pos + 1], pos + 1, pieces, partSize)
    ELSE IF Len(buf) > 0
    THEN [value |-> <<buf>>, buf |-> buf, pos |-> pos, at |-> "final"]
    ELSE [value |-> <<>>, buf |-> buf, pos |-> pos, at |-> "done"]

\* Mutant: `if (buffer.length) yield buffer` is left out.
GenNext_DropsRemainder(g, pieces, partSize) ==
    LET r == IF g.at = "inner"
             THEN GenResume(Subarray(g.buf, partSize, Len(g.buf)), g.pos, pieces, partSize)
             ELSE GenResume(g.buf, g.pos, pieces, partSize)
    IN  IF g.at \in {"done", "final"} \/ r.at = "final"
        THEN [value |-> <<>>, buf |-> g.buf, pos |-> g.pos, at |-> "done"]
        ELSE r

\* generator.next()
GenNext(g, pieces, partSize) ==
    CASE g.at = "done" -> [value |-> <<>>, buf |-> g.buf, pos |-> g.pos, at |-> "done"]
      [] g.at = "final" -> [value |-> <<>>, buf |-> g.buf, pos |-> g.pos, at |-> "done"]
      [] g.at = "inner" ->
            GenResume(Subarray(g.buf, partSize, Len(g.buf)), g.pos, pieces, partSize)
      [] OTHER -> GenResume(g.buf, g.pos, pieces, partSize)

NoChunks == [kind |-> "none", chunks |-> <<>>, buf |-> <<>>, pos |-> 0, at |-> "start"]

\* multipartUpload's preparation (the first try block): the iterable of chunks.
PrepareChunks(f, size, partSize) ==
    IF UseStreamToIterable(f.type, size)
    THEN [kind |-> "generator", chunks |-> <<>>, buf |-> <<>>, pos |-> 0, at |-> "start"]
    ELSE [kind |-> "array",
          chunks |-> bufferToChunks(
                        IF isStreamType(f.type) THEN streamToBuffer(f) ELSE Content(f.len),
                        partSize),
          buf |-> <<>>, pos |-> 0, at |-> "start"]

\* The ETag the store answers an UploadPart call with: it identifies the call's
\* session, part number and body.
ETagOf(id, number, body) == [UploadId |-> id, PartNumber |-> number, Body |-> body]

\* ------------------------------------------------------- listItems
\* A key is the sequence of its character codes; <<>> is the empty string.
\* Array.prototype.sort without a compareFn orders strings by code units.
RECURSIVE StringLess(_, _)
StringLess(a, b) ==
    IF b = <<>> THEN FALSE
    ELSE IF a = <<>> THEN TRUE
    ELSE IF Head(a) # Head(b) THEN Head(a) < Head(b)
    ELSE StringLess(Tail(a), Tail(b))

\* compareFn(a, b) < 0
ComesBefore(a, b, compareFn) ==
    IF compareFn = "descending" THEN StringLess(b, a) ELSE StringLess(a, b)

\* Array.prototype.sort(compareFn), which is stable
InsertSorted(x, sorted, compareFn) ==
    LET later == {i \in 1..Len(sorted) : ComesBefore(x, sorted[i], compareFn)}
        at == IF later = {} THEN Len(sorted) + 1
              ELSE CHOOSE i \in later : \A j \in later : i <= j
    IN  SubSeq(sorted, 1, at - 1) \o <<x>> \o SubSeq(sorted, at, Len(sorted))

RECURSIVE SortItems(_, _)
SortItems(items, compareFn) ==
    IF items = <<>> THEN <<>>
    ELSE InsertSorted(items[Len(items)],
                      SortItems(SubSeq(items, 1, Len(items) - 1), compareFn),
                      compareFn)

\* filterFn(fileName)
PassesFilter(key, filterFn) == filterFn = "all" \/ Len(key) = 1

\* `.map((x) => x.Key || "").filter(Boolean).filter(filterFn)`
RECURSIVE PageItems(_, _)
PageItems(keys, filterFn) ==
    IF keys = <<>> THEN <<>>
    ELSE (IF Head(keys) # <<>> /\ PassesFilter(Head(keys), filterFn)
          THEN <<Head(keys)>> ELSE <<>>) \o PageItems(Tail(keys), filterFn)

Page(contents, prefixes) == [Contents |-> contents, CommonPrefixes |-> prefixes]

\* The store contents the model lists: three pages of 2, 2 and 1 keys with a
\* folder prefix met on two pages; one page with a two-character key and an
\* entry without Key; one empty page.
Listings ==
    { << Page(<< <<5>>, <<3>> >>, << <<7>> >>),
         Page(<< <<1>>, <<4>> >>, << <<7>>, <<6>> >>),
         Page(<< <<2>> >>, <<>>) >>,
      << Page(<< <<2>>, <<1, 0>>, <<>>, <<1>> >>, << <<2, 1>>, <<1>> >>) >>,
      << Page(<<>>, <<>>) >> }

ListOptions ==
    [directoriesOnly : BOOLEAN, filterFn : {"all", "one character"},
     compareFn : {"undefined", "descending"}]

NoListOptions == [directoriesOnly |-> FALSE, filterFn |-> "all", compareFn |-> "undefined"]

\* Mutant: the request parameters keep the token they had.
NextParams_KeepToken(p, continuationToken) == p

\* `(params as any).ContinuationToken = continuationToken`
NextParams(p, continuationToken) ==
    [p EXCEPT !.ContinuationToken = continuationToken]

\* The store's answer to ListObjectsV2 with the given ContinuationToken: the
\* token names the page, and NextContinuationToken is absent on the last page.
ListResponse(pages, token) ==
    LET n == IF token = <<>> THEN 1 ELSE token[1]
    IN  [Contents |-> pages[n].Contents,
         CommonPrefixes |-> pages[n].CommonPrefixes,
         NextContinuationToken |-> IF n < Len(pages) THEN <<n + 1>> ELSE <<>>]

\* ------------------------------------------------------- state machine
TotalSent ==
    sent["PutObject"] + sent["CreateMultipartUpload"] + sent["UploadPart"]
    + sent["CompleteMultipartUpload"] + sent["AbortMultipartUpload"]
    + sent["DeleteObject"] + sent["CopyObject"] + sent["ListObjectsV2"]
    + sent["GetSignedUrl"] + sent["GetObject"]

\* this.ctx.s3.send(command): the call is issued and counted
Send(command) == sent' = [sent EXCEPT ![command] = @ + 1]

\* Mutant: without verbose logging the first failure is thrown at once.
handleRetryErrorLogging_QuietGivesUp(att, error) ==
    IF RetriesExhausted(att, maxAttempts) \/ ~allowVerboseLogging
    THEN [throws |-> TRUE, error |-> RetryError(error), warns |-> warnCalls]
    ELSE [throws |-> FALSE, error |-> <<>>, warns |-> logRetryWarning(warnCalls)]

\* S3FMContext.handleRetryErrorLogging(attempt, action, error): throws on the
\* last attempt, logs the retry warning otherwise.
handleRetryErrorLogging(att, error) ==
    IF RetriesExhausted(att, maxAttempts)
    THEN [throws |-> TRUE, error |-> RetryError(error), warns |-> warnCalls]
    ELSE [throws |-> FALSE, error |-> <<>>, warns |-> logRetryWarning(warnCalls)]

\* Math.random() in thousandths: a number in [0, 1)
Randoms == {0, 1, 500, 999}

\* backoffDelay(attempt): exp = Math.min(cap, BASE_DELAY_MS * 2 ** (attempt - 1)),
\* Math.floor(exp / 2 + Math.random() * (exp / 2)); 2 ** -1 is one half.
backoffDelay(att, random) ==
    LET exp == Min(BackoffCap, (BASE_DELAY_MS * 2 ^ att) \div 2)
    IN  (exp * 1000 + random * exp) \div 2000

\* `await wait(backoffDelay(attempt))` after handleRetryErrorLogging(attempt, ...):
\* it is reached when handleRetryErrorLogging has not thrown.
waitBackoff(h, att) ==
    IF h.throws
    THEN UNCHANGED <<waitArg, waitCount>>
    ELSE /\ waitArg' = <<att>>
         /\ waitCount' = waitCount + 1

Hints == {<<>>, <<0>>, <<1>>, <<MaxPartSize + 1>>, <<StreamBufferMax + 1>>}

Files ==
    {[type |-> t, len |-> n, hint |-> h, piece |-> p, breaks |-> 0] :
        t \in ContentTypes, n \in 0..MaxLen, h \in Hints, p \in 1..MaxPiece}

\* The stream payloads whose source fails at one of its reads: at a piece or
\* where the end of the stream would have been told.
BrokenFiles ==
    UNION {{[f EXCEPT !.breaks = b] : b \in 1..(Ceil(f.len, f.piece) + 1)} :
            f \in {g \in Files : isStreamType(g.type)}}

\* A resident payload is not read in pieces: its `piece` is fixed.
WellFormedFile(f) == isStreamType(f.type) \/ f.piece = 1

NoFile == [type |-> "Buffer", len |-> 0, hint |-> <<>>, piece |-> 1, breaks |-> 0]

EntryPc(o) ==
    CASE o = "uploadFile" -> "uploadFile"
      [] o = "deleteFile" -> "deleteFile"
      [] o = "getTemporaryDownloadUrl" -> "getSignedUrl"
      [] o = "listItems" -> "listItems"
      [] o = "getStream" -> "getStream"
      [] OTHER -> "copyFile"

\* No concurrent uploads: the limiter's state while one operation runs alone.
LimiterIdle ==
    /\ maxConcurrent = DefaultUploadConcurrency
    /\ lastCommand = <<>>
    /\ phase = <<>>
    /\ queue = <<>>
    /\ submitOrder = <<>>

\* No batch operation runs.
BatchRestIdle ==
    /\ batchOp = "none"
    /\ batchPc = "none"
    /\ names = <<>>
    /\ lastAnswer = <<>>
    /\ status = <<>>
    /\ headAttempt = <<>>
    /\ headFaults = <<>>
    /\ filePaths = <<>>
    /\ skippedFiles = <<>>
    /\ missingFiles = <<>>
    /\ batchResult = <<>>
    /\ batchThrown = <<>>
    /\ prefix = <<>>

BatchIdle == BatchRestIdle /\ allowVerboseLogging = FALSE

\* An FMConfig without options; no context constructed from it.
NoConfig == [maxUploadPartSizeMB |-> <<>>, maxAttempts |-> <<>>, verboseLogging |-> <<>>]

ConfigIdle ==
    /\ config = NoConfig
    /\ ctx = <<>>

\* No multipart call has been issued.
NoCall == [command |-> "none", by |-> 0, attempt |-> 0, UploadId |-> <<>>, Parts |-> <<>>,
           PartNumber |-> 0]

\* No concurrent multipart upload runs.
SessionIdle ==
    /\ transfers = <<>>
    /\ store = <<>>
    /\ lastCall = NoCall

\* No folder download runs.
FanoutIdle ==
    /\ downloads = <<>>
    /\ downloadQueue = <<>>

\* No download runs.
NoMetadata == [mimeType |-> <<>>, contentLength |-> <<>>]

NoRun == [calls |-> <<>>, pc |-> "none", thrown |-> <<>>, written |-> <<>>,
          warns |-> 0, verbose |-> FALSE]

DownloadIdle ==
    /\ dlPc = "none"
    /\ getAttempt = 0
    /\ metaAttempt = 0
    /\ calls = <<>>
    /\ fileMetadata = NoMetadata
    /\ stream = <<>>
    /\ fileBuffer = <<>>
    /\ outputFilename = FALSE
    /\ written = <<>>
    /\ dlThrown = <<>>
    /\ firstRun = NoRun

\* No repeated upload runs.
RerunIdle ==
    /\ run = 0
    /\ uploadInput = [name |-> <<>>, prefix |-> <<>>]
    /\ runPc = "none"
    /\ runAttempt = 0
    /\ putKeys = <<>>
    /\ returnedKeys = <<>>

Start(operations, files, listings, attempts) ==
    /\ op \in operations
    /\ maxAttempts \in attempts
    /\ maxUploadPartSize \in 1..MaxPartSize
    /\ file \in IF op = "uploadFile" THEN files ELSE {NoFile}
    /\ pc = EntryPc(op)
    /\ attempt = 0
    /\ partAttempt = 0
    /\ uploadId = <<>>
    /\ parts = <<>>
    /\ partNumber = 1
    /\ chunk = <<>>
    /\ fileChunks = NoChunks
    /\ iter = 0
    /\ caught = <<>>
    /\ result = <<>>
    /\ thrown = <<>>
    /\ sent = [c \in Commands |-> 0]
    /\ warnCalls = 0
    /\ faults = 0
    /\ sessions = {}
    /\ completeLog = <<>>
    /\ abortLog = <<>>
    /\ listing \in IF op = "listItems" THEN listings ELSE {<<>>}
    /\ listOptions \in IF op = "listItems" THEN ListOptions ELSE {NoListOptions}
    /\ params = [ContinuationToken |-> <<>>]
    /\ filteredItems = <<>>
    /\ deleteAnswer = "none"
    /\ \E option \in IF op = "getStream" THEN {<<>>, <<1000>>} ELSE {<<>>} :
        timeoutMS = IF option = <<>> THEN DefaultTimeoutMS ELSE option[1]
    /\ timers = <<>>
    /\ now = 0
    /\ waitArg = <<>>
    /\ waitCount = 0
    /\ LimiterIdle
    /\ BatchIdle
    /\ ConfigIdle
    /\ SessionIdle
    /\ FanoutIdle
    /\ RerunIdle
    /\ DownloadIdle

\* Every operation, on payloads whose source can be read to its end.
Init == Start(Operations, {f \in Files : WellFormedFile(f)}, Listings, 1..MaxAttemptsBound)

\* `${prefix ?? ""}${file.name}`
DestinationKey == "prefix/name"

\* multipartUpload's preparation catch: `throw new Error("Something went wrong
\* while attempting to prepare content ...", { cause: error })`
PreparationError(error) ==
    <<[name |-> "Error", src |-> "prepare content", at |-> 0]>> \o error

\* uploadFile: classification, routing and, on the multipart route,
\* multipartUpload's preparation of fileChunks.
uploadFile ==
    /\ pc = "uploadFile"
    /\ LET sizeInBytes == SizeInBytes(file)
       IN  IF UseMultipart(sizeInBytes, maxUploadPartSize)
           THEN IF Broken(file) /\ ~UseStreamToIterable(file.type, sizeInBytes)
                THEN /\ thrown' = PreparationError(ReadError)
                     /\ pc' = "thrown"
                     /\ fileChunks' = fileChunks
                ELSE /\ fileChunks' = PrepareChunks(file, sizeInBytes, maxUploadPartSize)
                     /\ pc' = "createMultipartUpload"
                     /\ thrown' = thrown
           ELSE /\ fileChunks' = fileChunks
                /\ pc' = "simpleUpload"
                /\ thrown' = thrown
    /\ attempt' = 0
    /\ UNCHANGED <<op, maxAttempts, maxUploadPartSize, file, partAttempt, uploadId,
                   parts, partNumber, chunk, iter, caught, result, sent,
                   warnCalls, faults, sessions, completeLog, abortLog, listVars, auxVars, deleteAnswer, streamVars, waitVars>>

\* One turn of simpleUpload's loop: attempt++, PutObject, return or catch.
simpleUpload ==
    /\ pc = "simpleUpload"
    /\ attempt' = attempt + 1
    /\ Send("PutObject")
    /\ \E ok \in IF Broken(file) THEN {FALSE} ELSE BOOLEAN :
        /\ faults' = IF ok THEN faults ELSE faults + 1
        /\ IF ok
           THEN /\ result' = <<[key |-> DestinationKey]>>
                /\ pc' = "returned"
                /\ UNCHANGED <<thrown, warnCalls, waitVars>>
           ELSE LET h == handleRetryErrorLogging(attempt + 1,
                             StoreError("Transient", "PutObject", TotalSent + 1))
                IN  /\ warnCalls' = h.warns
                    /\ thrown' = h.error
                    /\ waitBackoff(h, attempt + 1)
                    /\ pc' = IF h.throws THEN "thrown" ELSE "simpleUpload"
                    /\ UNCHANGED result
    /\ UNCHANGED <<op, maxAttempts, maxUploadPartSize, file, partAttempt, uploadId,
                   parts, partNumber, chunk, fileChunks, iter, caught, sessions,
                   completeLog, abortLog, listVars, auxVars, deleteAnswer, streamVars>>

\* The iterable is an async generator: leaving the for-await loop by a throw
\* calls generator.return(), which finishes it.  An array is not affected.
CloseIterator(fc) == IF fc.kind = "generator" THEN [fc EXCEPT !.at = "done"] ELSE fc

\* multipartUpload, top of the retry loop: attempt++ and CreateMultipartUpload.
\* The store answers with a fresh UploadId, with no UploadId, or with an error.
createMultipartUpload ==
    /\ pc = "createMultipartUpload"
    /\ attempt' = attempt + 1
    /\ Send("CreateMultipartUpload")
    /\ \E answer \in {"UploadId", "no UploadId", "error"} :
        /\ faults' = IF answer = "UploadId" THEN faults ELSE faults + 1
        /\ CASE answer = "UploadId" ->
                   LET id == sent["CreateMultipartUpload"] + 1
                   IN  /\ uploadId' = <<id>>
                       /\ sessions' = sessions \cup {id}
                       /\ pc' = "nextChunk"
                       /\ UNCHANGED caught
             [] answer = "no UploadId" ->
                   /\ uploadId' = <<>>
                   /\ caught' = <<[name |-> "Error",
                                   src |-> "Failed to initiate multipart upload",
                                   at |-> 0]>>
                   /\ pc' = "abortMultipartUpload"
                   /\ UNCHANGED sessions
             [] OTHER ->
                   /\ caught' = StoreError("Transient", "CreateMultipartUpload", TotalSent + 1)
                   /\ pc' = "abortMultipartUpload"
                   /\ UNCHANGED <<uploadId, sessions>>
    /\ parts' = <<>>
    /\ partNumber' = 1
    /\ iter' = 0
    /\ UNCHANGED <<op, maxAttempts, maxUploadPartSize, file, partAttempt, chunk,
                   fileChunks, result, thrown, warnCalls, completeLog, abortLog, listVars, auxVars, deleteAnswer, streamVars, waitVars>>

\* `for await (const chunk of fileChunks)`: ask the iterator for the next chunk.
\* `iter` counts the chunks this loop has been given.
nextChunk ==
    /\ pc = "nextChunk"
    /\ IF fileChunks.kind = "generator"
       THEN LET r == GenNext(fileChunks, SourceReads(file), maxUploadPartSize)
            IN  IF r.at = "threw"
                THEN /\ fileChunks' = [fileChunks EXCEPT !.buf = r.buf, !.pos = r.pos,
                                                         !.at = "done"]
                     /\ caught' = ReadError
                     /\ chunk' = <<>> /\ iter' = iter /\ pc' = "abortMultipartUpload"
                ELSE /\ fileChunks' = [fileChunks EXCEPT !.buf = r.buf, !.pos = r.pos,
                                                         !.at = r.at]
                     /\ caught' = caught
                     /\ IF r.value # <<>>
                        THEN chunk' = r.value[1] /\ iter' = iter + 1 /\ pc' = "uploadPartWithRetry"
                        ELSE chunk' = <<>> /\ iter' = iter /\ pc' = "completeMultipartUpload"
       ELSE /\ fileChunks' = fileChunks
            /\ caught' = caught
            /\ IF iter < Len(fileChunks.chunks)
               THEN /\ chunk' = fileChunks.chunks[iter + 1]
                    /\ iter' = iter + 1
                    /\ pc' = "uploadPartWithRetry"
               ELSE chunk' = <<>> /\ iter' = iter /\ pc' = "completeMultipartUpload"
    /\ partAttempt' = 0
    /\ UNCHANGED <<op, maxAttempts, maxUploadPartSize, file, attempt, uploadId, parts,
                   partNumber, result, thrown, sent, warnCalls, faults,
                   sessions, completeLog, abortLog, listVars, auxVars, deleteAnswer, streamVars, waitVars>>

\* The loop body after a part has been uploaded: parts.push(...); partNumber++
\* Mutant: parts.unshift instead of parts.push.
PushPart_Unshift(ps, tag, number) == <<[ETag |-> tag, PartNumber |-> number]>> \o ps

PushPart(ps, tag, number) == Append(ps, [ETag |-> tag, PartNumber |-> number])

\* One turn of uploadPartWithRetry's loop: attempt++, UploadPart, return the
\* ETag or catch; a throw leaves the for-await loop for multipartUpload's catch.
uploadPartWithRetry ==
    /\ pc = "uploadPartWithRetry"
    /\ partAttempt' = partAttempt + 1
    /\ Send("UploadPart")
    /\ \E ok \in BOOLEAN :
        /\ faults' = IF ok THEN faults ELSE faults + 1
        /\ IF ok
           THEN /\ parts' = PushPart(parts, ETagOf(uploadId[1], partNumber, chunk), partNumber)
                /\ partNumber' = partNumber + 1
                /\ pc' = "nextChunk"
                /\ UNCHANGED <<caught, warnCalls, fileChunks, waitVars>>
           ELSE LET h == handleRetryErrorLogging(partAttempt + 1,
                             StoreError("Transient", "UploadPart", TotalSent + 1))
                IN  /\ warnCalls' = h.warns
                    /\ caught' = IF h.throws THEN h.error ELSE caught
                    /\ waitBackoff(h, partAttempt + 1)
                    /\ pc' = IF h.throws THEN "abortMultipartUpload" ELSE "uploadPartWithRetry"
                    /\ fileChunks' = IF h.throws THEN CloseIterator(fileChunks) ELSE fileChunks
                    /\ UNCHANGED <<parts, partNumber>>
    /\ UNCHANGED <<op, maxAttempts, maxUploadPartSize, file, attempt, uploadId, chunk,
                   iter, result, thrown, sessions, completeLog, abortLog, listVars, auxVars, deleteAnswer, streamVars>>

\* CompleteMultipartUpload with the parts collected by this attempt.
completeMultipartUpload ==
    /\ pc = "completeMultipartUpload"
    /\ Send("CompleteMultipartUpload")
    /\ completeLog' = Append(completeLog,
                             [UploadId |-> uploadId[1], Parts |-> parts, produced |-> iter])
    /\ \E ok \in BOOLEAN :
        /\ faults' = IF ok THEN faults ELSE faults + 1
        /\ IF ok
           THEN /\ result' = <<[key |-> DestinationKey]>>
                /\ pc' = "returned"
                /\ UNCHANGED caught
           ELSE /\ caught' = StoreError("Transient", "CompleteMultipartUpload", TotalSent + 1)
                /\ pc' = "abortMultipartUpload"
                /\ UNCHANGED result
    /\ UNCHANGED <<op, maxAttempts, maxUploadPartSize, file, attempt, partAttempt,
                   uploadId, parts, partNumber, chunk, fileChunks, iter, thrown,
                   warnCalls, sessions, abortLog, listVars, auxVars, deleteAnswer, streamVars, waitVars>>

\* Mutant: the abort names no upload.
AbortInput_NoId(id) == <<>>

\* The UploadId of the AbortMultipartUploadCommand's input.
AbortInput(id) == id

\* multipartUpload's catch block: AbortMultipartUpload with the current value of
\* uploadId (not awaited inside a try of its own), then handleRetryErrorLogging
\* for the caught error.
abortMultipartUpload ==
    /\ pc = "abortMultipartUpload"
    /\ Send("AbortMultipartUpload")
    /\ abortLog' = Append(abortLog, AbortInput(uploadId))
    /\ \E ok \in BOOLEAN :
        /\ faults' = IF ok THEN faults ELSE faults + 1
        /\ IF ok
           THEN LET h == handleRetryErrorLogging(attempt, caught)
                IN  /\ warnCalls' = h.warns
                    /\ thrown' = h.error
                    /\ waitBackoff(h, attempt)
                    /\ pc' = IF h.throws THEN "thrown" ELSE "createMultipartUpload"
           ELSE /\ thrown' = StoreError("Transient", "AbortMultipartUpload", TotalSent + 1)
                /\ pc' = "thrown"
                /\ UNCHANGED <<warnCalls, waitVars>>
    /\ UNCHANGED <<op, maxAttempts, maxUploadPartSize, file, attempt, partAttempt,
                   uploadId, parts, partNumber, chunk, fileChunks, iter, caught, result,
                   sessions, completeLog, listVars, auxVars, deleteAnswer, streamVars>>


\* ------------------------------------------------------- FileService
\* Mutant: the caller goes on to the delete although the copy has failed.
CopyCaught_GoesOn(h) == "deleteFile"

\* copyFile's catch: handleRetryErrorLogging throws, and moveFile and
\* renameFile rethrow what their `await this.copyFile(...)` throws, or the
\* loop takes its next turn.
CopyCaught(h) == IF h.throws THEN "thrown" ELSE "copyFile"

\* One turn of copyFile's loop: CopyObject, return or catch.  The loop never
\* executes attempt++: `attempt` keeps the value of `let attempt = 0`.
\* moveFile and renameFile go on to deleteFile once copyFile has returned.
copyFile ==
    /\ pc = "copyFile"
    /\ sent["CopyObject"] < MaxCopyCalls
    /\ Send("CopyObject")
    /\ \E ok \in BOOLEAN :
        /\ faults' = IF ok THEN faults ELSE faults + 1
        /\ IF ok
           THEN /\ IF op = "copyFile"
                   THEN result' = <<[success |-> TRUE]>> /\ pc' = "returned"
                   ELSE result' = result /\ pc' = "deleteFile"
                /\ UNCHANGED <<thrown, warnCalls, waitVars>>
           ELSE LET h == handleRetryErrorLogging(attempt,
                             StoreError("Transient", "CopyObject", TotalSent + 1))
                IN  /\ warnCalls' = h.warns
                    /\ thrown' = h.error
                    /\ waitBackoff(h, attempt)
                    /\ pc' = CopyCaught(h)
                    /\ UNCHANGED result
    /\ attempt' = attempt
    /\ UNCHANGED <<maxAttempts, maxUploadPartSize, file, op, partAttempt, uploadId,
                   parts, partNumber, chunk, fileChunks, iter, caught, sessions,
                   completeLog, abortLog, listVars, auxVars, deleteAnswer, streamVars>>

\* Mutant: a missing file is reported as deleted.
DeleteResult_AlwaysDeleted(o, deleted) ==
    IF o = "deleteFile"
    THEN <<[success |-> TRUE, deleted |-> TRUE, reason |-> ""]>>
    ELSE <<[success |-> TRUE, originalDeleted |-> TRUE]>>

\* What the caller of deleteFile returns for deleteFile's return value:
\* deleteFile returns it as it is, moveFile and renameFile return
\* { success: true, originalDeleted: <deleteFile's success> }.
DeleteResult(o, deleted) ==
    IF o = "deleteFile"
    THEN <<[success |-> deleted, deleted |-> deleted,
            reason |-> IF deleted THEN "" ELSE "File not found"]>>
    ELSE <<[success |-> TRUE, originalDeleted |-> deleted]>>

\* One turn of deleteFile's loop: attempt++, DeleteObject, return or catch.
\* A NoSuchKey answer is logged with logger.warn and returned, not retried.
deleteFile ==
    /\ pc = "deleteFile"
    /\ attempt' = attempt + 1
    /\ Send("DeleteObject")
    /\ \E answer \in {"deleted", "NoSuchKey", "error"} :
        /\ deleteAnswer' = answer
        /\ faults' = IF answer = "error" THEN faults + 1 ELSE faults
        /\ CASE answer = "deleted" ->
                   /\ result' = DeleteResult(op, TRUE)
                   /\ pc' = "returned"
                   /\ UNCHANGED <<thrown, warnCalls, waitVars>>
             [] answer = "NoSuchKey" ->
                   /\ result' = DeleteResult(op, FALSE)
                   /\ warnCalls' = warnCalls + 1
                   /\ pc' = "returned"
                   /\ UNCHANGED <<thrown, waitVars>>
             [] OTHER ->
                   LET h == handleRetryErrorLogging(attempt + 1,
                                StoreError("Transient", "DeleteObject", TotalSent + 1))
                   IN  /\ warnCalls' = h.warns
                       /\ thrown' = h.error
                       /\ waitBackoff(h, attempt + 1)
                       /\ pc' = IF h.throws THEN "thrown" ELSE "deleteFile"
                       /\ UNCHANGED result
    /\ UNCHANGED <<maxAttempts, maxUploadPartSize, file, op, partAttempt, uploadId,
                   parts, partNumber, chunk, fileChunks, iter, caught, sessions,
                   completeLog, abortLog, listVars, auxVars, streamVars>>

\* ------------------------------------------------------- DownloadManager
\* One turn of getTemporaryDownloadUrl's loop: attempt++, getSignedUrl, return or catch.
getTemporaryDownloadUrl ==
    /\ pc = "getSignedUrl"
    /\ attempt' = attempt + 1
    /\ Send("GetSignedUrl")
    /\ \E ok \in BOOLEAN :
        /\ faults' = IF ok THEN faults ELSE faults + 1
        /\ IF ok
           THEN /\ result' = <<[signedUrl |-> "url"]>>
                /\ pc' = "returned"
                /\ UNCHANGED <<thrown, warnCalls, waitVars>>
           ELSE LET h == handleRetryErrorLogging(attempt + 1,
                             StoreError("Transient", "GetSignedUrl", TotalSent + 1))
                IN  /\ warnCalls' = h.warns
                    /\ thrown' = h.error
                    /\ waitBackoff(h, attempt + 1)
                    /\ pc' = IF h.throws THEN "thrown" ELSE "getSignedUrl"
                    /\ UNCHANGED result
    /\ UNCHANGED <<maxAttempts, maxUploadPartSize, file, op, partAttempt, uploadId,
                   parts, partNumber, chunk, fileChunks, iter, caught, sessions,
                   completeLog, abortLog, listVars, auxVars, deleteAnswer, streamVars>>


\* Mutant: the timer is left running.
clearTimeout_Forgotten(timer) == timer

\* clearTimeout(timeout): a timer that has not fired never will
clearTimeout(timer) ==
    [timer EXCEPT !.state = IF @ = "armed" THEN "cleared" ELSE @]

\* The head of one turn of getStream's loop: a new AbortController, its timer
\* set to timeoutMS, attempt++, and the GetObject call issued with the
\* controller's signal.
getStreamSend ==
    /\ pc = "getStream"
    /\ timers' = Append(timers, [deadline |-> now + timeoutMS, state |-> "armed"])
    /\ attempt' = attempt + 1
    /\ Send("GetObject")
    /\ pc' = "awaitSend"
    /\ UNCHANGED <<op, maxAttempts, maxUploadPartSize, file, partAttempt, uploadId,
                   parts, partNumber, chunk, fileChunks, iter, caught, result, thrown,
                   warnCalls, faults, sessions, completeLog, abortLog, listVars,
                   auxVars, deleteAnswer, timeoutMS, now, waitVars>>

\* The store answers the call in flight before its timer is due: clearTimeout
\* in the try block or in the catch block, then the Body is returned, or the
\* error (the store's, or the one thrown for an answer without Body) goes to
\* handleRetryErrorLogging.
getStreamAnswer ==
    /\ pc = "awaitSend"
    /\ timers[attempt].state = "armed"
    /\ now < timers[attempt].deadline
    /\ timers' = [timers EXCEPT ![attempt] = clearTimeout(@)]
    /\ \E answer \in {"Body", "no Body", "error"} :
        /\ faults' = IF answer = "Body" THEN faults ELSE faults + 1
        /\ IF answer = "Body"
           THEN /\ result' = <<[Body |-> "open"]>>
                /\ pc' = "returned"
                /\ UNCHANGED <<thrown, warnCalls, waitVars>>
           ELSE LET h == handleRetryErrorLogging(attempt,
                             StoreError(IF answer = "error" THEN "Transient" ELSE "Error",
                                        "GetObject", TotalSent))
                IN  /\ warnCalls' = h.warns
                    /\ thrown' = h.error
                    /\ waitBackoff(h, attempt)
                    /\ pc' = IF h.throws THEN "thrown" ELSE "getStream"
                    /\ UNCHANGED result
    /\ UNCHANGED <<op, maxAttempts, maxUploadPartSize, file, attempt, partAttempt,
                   uploadId, parts, partNumber, chunk, fileChunks, iter, caught, sent,
                   sessions, completeLog, abortLog, listVars, auxVars, deleteAnswer,
                   timeoutMS, now>>

\* A timer that is due fires: controller.abort().  The call in flight on
\* that controller's signal rejects with an AbortError, which the catch
\* block logs with logger.warn and hands to handleRetryErrorLogging.  The
\* signal of a call that has been answered with a Body destroys that Body.
timerFires ==
    \E k \in 1..Len(timers) :
        /\ timers[k].state = "armed"
        /\ now >= timers[k].deadline
        /\ IF k = attempt /\ pc = "awaitSend"
           THEN LET h == handleRetryErrorLogging(attempt,
                             StoreError("AbortError", "GetObject", TotalSent))
                IN  /\ timers' = [timers EXCEPT ![k] = clearTimeout([@ EXCEPT !.state = "fired"])]
                    /\ faults' = faults + 1
                    /\ warnCalls' = h.warns + 1
                    /\ thrown' = h.error
                    /\ waitBackoff(h, attempt)
                    /\ pc' = IF h.throws THEN "thrown" ELSE "getStream"
                    /\ UNCHANGED result
           ELSE /\ timers' = [timers EXCEPT ![k].state = "fired"]
                /\ result' = IF k = attempt /\ pc = "returned"
                             THEN <<[Body |-> "destroyed"]>> ELSE result
                /\ UNCHANGED <<faults, warnCalls, thrown, pc, waitVars>>
        /\ UNCHANGED <<op, maxAttempts, maxUploadPartSize, file, attempt, partAttempt,
                       uploadId, parts, partNumber, chunk, fileChunks, iter, caught,
                       sent, sessions, completeLog, abortLog, listVars, auxVars,
                       deleteAnswer, timeoutMS, now>>

\* Time passes while a timer runs, half a timeout at a time.
tick ==
    /\ \E k \in 1..Len(timers) : timers[k].state = "armed" /\ now < timers[k].deadline
    /\ now' = now + timeoutMS \div 2
    /\ UNCHANGED <<op, maxAttempts, maxUploadPartSize, file, pc, attempt, partAttempt,
                   uploadId, parts, partNumber, chunk, fileChunks, iter, caught, result,
                   thrown, sent, warnCalls, faults, sessions, completeLog, abortLog,
                   listVars, auxVars, deleteAnswer, timeoutMS, timers, waitVars>>


\* Mutant: the attempt counter is declared outside the page loop.
NextPageAttempt_Carried(att) == att

\* `let attempt = 0` at the top of the do-while loop over the pages
NextPageAttempt(att) == 0

\* One turn of the retry loop of listItems' page loop: attempt++, ListObjectsV2;
\* on an answer the page is filtered and accumulated, and either the next page
\* is asked for with a fresh attempt counter or the sorted items are returned.
listItems ==
    /\ pc = "listItems"
    /\ Send("ListObjectsV2")
    /\ \E ok \in BOOLEAN :
        /\ faults' = IF ok THEN faults ELSE faults + 1
        /\ IF ok
           THEN LET response == ListResponse(listing, params.ContinuationToken)
                    items == PageItems(IF listOptions.directoriesOnly
                                       THEN response.CommonPrefixes
                                       ELSE response.Contents,
                                       listOptions.filterFn)
                    continuationToken == response.NextContinuationToken
                IN  /\ filteredItems' = filteredItems \o items
                    /\ params' = NextParams(params, continuationToken)
                    /\ IF continuationToken # <<>>
                       THEN /\ attempt' = NextPageAttempt(attempt + 1)
                            /\ pc' = "listItems"
                            /\ result' = result
                       ELSE /\ attempt' = attempt + 1
                            /\ pc' = "returned"
                            /\ result' = <<[items |-> SortItems(filteredItems \o items,
                                                                listOptions.compareFn)]>>
                    /\ UNCHANGED <<thrown, warnCalls, waitVars>>
           ELSE LET h == handleRetryErrorLogging(attempt + 1,
                             StoreError("Transient", "ListObjectsV2", TotalSent + 1))
                IN  /\ attempt' = attempt + 1
                    /\ warnCalls' = h.warns
                    /\ thrown' = h.error
                    /\ waitBackoff(h, attempt + 1)
                    /\ pc' = IF h.throws THEN "thrown" ELSE "listItems"
                    /\ UNCHANGED <<result, params, filteredItems>>
    /\ UNCHANGED <<op, maxAttempts, maxUploadPartSize, file, partAttempt, uploadId,
                   parts, partNumber, chunk, fileChunks, iter, caught, sessions,
                   completeLog, abortLog, listing, listOptions, auxVars, deleteAnswer, streamVars>>


Next ==
    \/ uploadFile
    \/ simpleUpload
    \/ createMultipartUpload
    \/ nextChunk
    \/ uploadPartWithRetry
    \/ completeMultipartUpload
    \/ abortMultipartUpload
    \/ copyFile
    \/ deleteFile
    \/ getTemporaryDownloadUrl
    \/ getStreamSend
    \/ getStreamAnswer
    \/ timerFires
    \/ tick
    \/ listItems

Spec == Init /\ [][Next]_vars

\* uploadFile on payloads whose source may fail while it is read.
FaultySourceInit ==
    Start({"uploadFile"}, {f \in Files : WellFormedFile(f)} \cup BrokenFiles, Listings,
          1..MaxAttemptsBound)

FaultySourceNext ==
    \/ uploadFile
    \/ simpleUpload
    \/ createMultipartUpload
    \/ nextChunk
    \/ uploadPartWithRetry
    \/ completeMultipartUpload
    \/ abortMultipartUpload

FaultySourceSpec == FaultySourceInit /\ [][FaultySourceNext]_vars

\* ------------------------------------------------------- listItems, by keys
\* S3FMContext.listItems as it lists folders from the keys of the objects:
\* the request has no Delimiter, and every page is answered in Contents.

\* The character "/" of `key.split("/")` and `key.endsWith("/")`
Slash == 0

\* Mutant: the array is taken as it is, duplicates and all.
Unique_Keep(items) == items

\* `Array.from(new Set(items))`: the first occurrence of every entry, in order
RECURSIVE Unique(_)
Unique(items) ==
    IF items = <<>> THEN <<>>
    ELSE LET front == Unique(SubSeq(items, 1, Len(items) - 1))
             last == items[Len(items)]
         IN  IF \E i \in 1..Len(front) : front[i] = last THEN front ELSE Append(front, last)

\* The folders of a key: `parts = key.split("/").slice(0, -1)` and, for i from
\* 1 to parts.length, `parts.slice(0, i).join("/") + "/"`: the key's prefixes
\* that end in "/", the shortest first.
RECURSIVE Folders(_, _)
Folders(key, i) ==
    IF i > Len(key) THEN <<>>
    ELSE (IF key[i] = Slash THEN <<SubSeq(key, 1, i)>> ELSE <<>>) \o Folders(key, i + 1)

\* The items of one page. For directories: the folders of its keys, collected
\* in a Set, then `.filter(filterFn)`. For files: its keys,
\* `.filter(Boolean).filter((key) => !key.endsWith("/")).filter(filterFn)`.
ContentItems(keys, directoriesOnly, filterFn) ==
    IF directoriesOnly
    THEN LET RECURSIVE Collect(_)
             Collect(ks) == IF ks = <<>> THEN <<>>
                            ELSE Folders(Head(ks), 1) \o Collect(Tail(ks))
             folders == Unique(Collect(keys))
         IN  SelectSeq(folders, LAMBDA x : PassesFilter(x, filterFn))
    ELSE SelectSeq(keys, LAMBDA key : /\ key # <<>>
                                      /\ key[Len(key)] # Slash
                                      /\ PassesFilter(key, filterFn))

\* The store contents listed by keys: two pages with the folder "a/" met on
\* both, a folder in a folder, a folder marker "b/", a key that begins with
\* "/" and an entry without Key; one page of files only; one empty page.
KeyListings ==
    { << Page(<< <<1, Slash, 2>>, <<1, Slash, 1, Slash, 2>>, <<2>> >>, <<>>),
         Page(<< <<1, Slash, 1>>, <<2, Slash>>, <<>>, <<Slash, 1>>, <<1>> >>, <<>>) >>,
      << Page(<< <<2>>, <<1, 2>>, <<1>> >>, <<>>) >>,
      << Page(<<>>, <<>>) >> }

ListInit == Start({"listItems"}, {NoFile}, KeyListings, 1..MaxAttemptsBound)

\* One turn of the retry loop of the page loop: attempt++, ListObjectsV2; on
\* an answer the page's items are accumulated, and either the next page is
\* asked for with a fresh attempt counter or the items are returned sorted,
\* for directories without their duplicates.
listItemsFromContents ==
    /\ pc = "listItems"
    /\ Send("ListObjectsV2")
    /\ \E ok \in BOOLEAN :
        /\ faults' = IF ok THEN faults ELSE faults + 1
        /\ IF ok
           THEN LET response == ListResponse(listing, params.ContinuationToken)
                    items == ContentItems(response.Contents, listOptions.directoriesOnly,
                                          listOptions.filterFn)
                    continuationToken == response.NextContinuationToken
                IN  /\ filteredItems' = filteredItems \o items
                    /\ params' = NextParams(params, continuationToken)
                    /\ IF continuationToken # <<>>
                       THEN /\ attempt' = NextPageAttempt(attempt + 1)
                            /\ pc' = "listItems"
                            /\ result' = result
                       ELSE /\ attempt' = attempt + 1
                            /\ pc' = "returned"
                            /\ result' =
                                 <<[items |-> SortItems(IF listOptions.directoriesOnly
                                                        THEN Unique(filteredItems \o items)
                                                        ELSE filteredItems \o items,
                                                        listOptions.compareFn)]>>
                    /\ UNCHANGED <<thrown, warnCalls, waitVars>>
           ELSE LET h == handleRetryErrorLogging(attempt + 1,
                             StoreError("Transient", "ListObjectsV2", TotalSent + 1))
                IN  /\ attempt' = attempt + 1
                    /\ warnCalls' = h.warns
                    /\ thrown' = h.error
                    /\ waitBackoff(h, attempt + 1)
                    /\ pc' = IF h.throws THEN "thrown" ELSE "listItems"
                    /\ UNCHANGED <<result, params, filteredItems>>
    /\ UNCHANGED <<op, maxAttempts, maxUploadPartSize, file, partAttempt, uploadId,
                   parts, partNumber, chunk, fileChunks, iter, caught, sessions,
                   completeLog, abortLog, listing, listOptions, auxVars, deleteAnswer, streamVars>>

ListNext == listItemsFromContents

ListSpec == ListInit /\ [][ListNext]_vars

\* ------------------------------------------------------- any maxAttempts
\* `this.maxAttempts = config.maxAttempts ?? MAX_ATTEMPTS_DEFAULT`: the
\* configured number is taken as it is, also 0 and a negative one.
AnyAttempts == {-1, 0} \cup 1..MaxAttemptsBound

AnyAttemptsInit ==
    Start({"uploadFile"}, {f \in Files : WellFormedFile(f)}, Listings, AnyAttempts)

\* simpleUpload's loop, followed for MaxTries turns.
simpleUploadTurn == attempt < MaxTries /\ simpleUpload

AnyAttemptsNext == uploadFile \/ simpleUploadTurn

AnyAttemptsSpec == AnyAttemptsInit /\ [][AnyAttemptsNext]_vars

\* ------------------------------------------------------------------ claims
Ended == pc \in {"returned", "thrown"}

\* The operations that are one retried store call: simpleUpload's PutObject,
\* deleteFile, getTemporaryDownloadUrl and a listItems of a single page.
IsSingleRetried ==
    \/ op \in {"deleteFile", "getTemporaryDownloadUrl"}
    \/ op = "uploadFile" /\ ~UseMultipart(SizeInBytes(file), maxUploadPartSize)
    \/ op = "listItems" /\ Len(listing) = 1

SingleCommand ==
    CASE op = "deleteFile" -> "DeleteObject"
      [] op = "getTemporaryDownloadUrl" -> "GetSignedUrl"
      [] op = "listItems" -> "ListObjectsV2"
      [] OTHER -> "PutObject"

\* The operation returned its success value (deleteFile: the file was deleted).
Succeeded ==
    /\ pc = "returned"
    /\ result # <<>>
    /\ IF op = "deleteFile" THEN result[1].deleted ELSE TRUE

\* C1: a single retried store operation never issues more than maxAttempts
\* calls; while every call so far has failed transiently and fewer than
\* maxAttempts were issued it is still retrying; and once maxAttempts calls
\* have all failed it has thrown an error whose cause is the error of the
\* last (maxAttempts-th) call.
C1_RetryBound ==
    IsSingleRetried =>
        LET n == sent[SingleCommand]
        IN  /\ n <= maxAttempts
            /\ (faults = n /\ n < maxAttempts) => ~Ended
            /\ (faults = n /\ n = maxAttempts) =>
                    /\ pc = "thrown"
                    /\ result = <<>>
                    /\ Len(thrown) = 2
                    /\ Tail(thrown) = <<[name |-> "Transient", src |-> SingleCommand, at |-> n]>>

C1_Witness ==
    /\ op = "deleteFile"
    /\ maxAttempts > 1
    /\ pc = "thrown"
    /\ sent["DeleteObject"] = maxAttempts
    /\ faults = maxAttempts

C3_CopyRetriesBounded ==
    op \in {"copyFile", "moveFile", "renameFile"} =>
        /\ sent["CopyObject"] <= maxAttempts
        /\ (faults = maxAttempts /\ sent["CopyObject"] = maxAttempts) => pc = "thrown"

\* ceil(L / S), stated without the model's Ceil
CeilDiv(L, S) == CHOOSE n \in 0..L : n * S >= L /\ (n = 0 \/ (n - 1) * S < L)

\* bytes [i*S, min((i+1)*S, L)) of a payload of length L, for 0-based i
SourceChunk(i, L, S) == [j \in 1..((IF (i + 1) * S < L THEN (i + 1) * S ELSE L) - i * S) |-> i * S + j]

\* The payload's size is known and is its length.
KnownLength == SizeInBytes(file) = <<file.len>>

\* C4: with a store that never fails, uploadFile of a payload of known length L
\* and part size S issues, when L > S, one CreateMultipartUpload, then
\* ceil(L/S) UploadPart calls carrying the consecutive S-sized ranges of the
\* payload, then one CompleteMultipartUpload, and no PutObject and no abort;
\* when L <= S it issues exactly one PutObject and no multipart call.
C4_CallCounts ==
    (op = "uploadFile" /\ KnownLength /\ faults = 0) =>
        LET L == file.len
            S == maxUploadPartSize
            n == CeilDiv(L, S)
        IN  /\ pc # "thrown"
            /\ L > S =>
                /\ sent["PutObject"] = 0 /\ sent["AbortMultipartUpload"] = 0
                /\ sent["CreateMultipartUpload"] <= 1
                /\ sent["UploadPart"] <= n
                /\ sent["UploadPart"] > 0 => sent["CreateMultipartUpload"] = 1
                /\ sent["CompleteMultipartUpload"] = (IF pc = "returned" THEN 1 ELSE 0)
                /\ pc = "returned" =>
                    /\ sent["CreateMultipartUpload"] = 1
                    /\ sent["UploadPart"] = n
                    /\ Len(completeLog[1].Parts) = n
                    /\ \A k \in 1..n :
                         completeLog[1].Parts[k].ETag.Body = SourceChunk(k - 1, L, S)
            /\ L <= S =>
                /\ sent["CreateMultipartUpload"] = 0 /\ sent["UploadPart"] = 0
                /\ sent["CompleteMultipartUpload"] = 0 /\ sent["AbortMultipartUpload"] = 0
                /\ sent["PutObject"] = (IF pc = "returned" THEN 1 ELSE 0)

C4_Witness ==
    /\ op = "uploadFile" /\ KnownLength /\ faults = 0
    /\ pc = "returned"
    /\ file.len = 3 /\ maxUploadPartSize = 2
    /\ sent["UploadPart"] = 2
    /\ Len(completeLog[1].Parts[2].ETag.Body) = 1

MultipartCommands ==
    {"CreateMultipartUpload", "UploadPart", "CompleteMultipartUpload", "AbortMultipartUpload"}

MultipartSteps ==
    {"createMultipartUpload", "nextChunk", "uploadPartWithRetry",
     "completeMultipartUpload", "abortMultipartUpload"}

\* C5: uploadFile takes the multipart path exactly when the payload's size is
\* unknown (a Readable or ReadableStream without sizeHintBytes) or its size
\* (sizeHintBytes when given, the measured length otherwise) is strictly
\* greater than the part size; a size equal to the part size takes the single
\* PutObject path, and a hint overrides the measured length.
C5_Routing ==
    op = "uploadFile" =>
        LET unknown == file.type \in {"Readable", "ReadableStream"} /\ file.hint = <<>>
            size == IF file.hint # <<>> THEN file.hint[1] ELSE file.len
            multipart == unknown \/ size > maxUploadPartSize
        IN  /\ multipart =>
                /\ sent["PutObject"] = 0
                /\ pc \in MultipartSteps \cup {"uploadFile", "returned", "thrown"}
                /\ Ended => sent["CreateMultipartUpload"] >= 1
            /\ ~multipart =>
                /\ \A c \in MultipartCommands : sent[c] = 0
                /\ pc \in {"uploadFile", "simpleUpload", "returned", "thrown"}
                /\ Ended => sent["PutObject"] >= 1

C5_Witness ==
    /\ op = "uploadFile"
    /\ file.type = "Buffer"
    /\ file.hint # <<>>
    /\ file.hint[1] > maxUploadPartSize
    /\ file.len <= maxUploadPartSize
    /\ sent["CreateMultipartUpload"] = 1
    /\ pc = "returned"

\* C6: uploadFile of a payload of 0 bytes issues no CreateMultipartUpload, no
\* UploadPart and no CompleteMultipartUpload, and with a store that never
\* fails it returns after exactly one PutObject.
C6_EmptyPayloadSinglePut ==
    (op = "uploadFile" /\ file.len = 0) =>
        /\ sent["CreateMultipartUpload"] = 0
        /\ sent["UploadPart"] = 0
        /\ sent["CompleteMultipartUpload"] = 0
        /\ (faults = 0 /\ pc = "returned") => sent["PutObject"] = 1

\* C7: bufferToChunks of a buffer of L >= 0 bytes with part size S > 0 returns
\* ceil(L/S) chunks; chunk i (from 0) is the bytes [i*S, min((i+1)*S, L)); every
\* chunk but the last has S bytes and the last has L mod S bytes, or S when
\* that is 0; L = 0 gives no chunk; the chunks concatenated are the buffer.
C7_BufferToChunks ==
    fileChunks.kind = "array" =>
        LET L == file.len
            S == maxUploadPartSize
            cs == fileChunks.chunks
        IN  /\ Len(cs) = CeilDiv(L, S)
            /\ L = 0 => cs = <<>>
            /\ \A i \in 1..Len(cs) :
                /\ cs[i] = SourceChunk(i - 1, L, S)
                /\ i < Len(cs) => Len(cs[i]) = S
                /\ i = Len(cs) => Len(cs[i]) = (IF L % S = 0 THEN S ELSE L % S)
            /\ Concat(cs) = Content(L)

C7_Witness ==
    /\ fileChunks.kind = "array"
    /\ Len(fileChunks.chunks) = 2
    /\ Len(fileChunks.chunks[1]) = maxUploadPartSize
    /\ Len(fileChunks.chunks[2]) < maxUploadPartSize

\* C8: when uploadFile has returned or thrown, every upload id that a
\* CreateMultipartUpload call returned has been named by a
\* CompleteMultipartUpload call or by an AbortMultipartUpload call.
C8_NoSessionAbandoned ==
    (op = "uploadFile" /\ Ended) =>
        \A id \in sessions :
            \/ \E i \in 1..Len(completeLog) : completeLog[i].UploadId = id
            \/ \E i \in 1..Len(abortLog) : abortLog[i] = <<id>>

C8_Witness ==
    /\ op = "uploadFile"
    /\ pc = "thrown"
    /\ Cardinality(sessions) = 2
    /\ \A id \in sessions : \E i \in 1..Len(abortLog) : abortLog[i] = <<id>>
    /\ \E i \in 1..Len(completeLog) : completeLog[i].UploadId \in sessions

\* C9: a multipart upload that has thrown threw from the retry decision: the
\* error is handleRetryErrorLogging's, its cause is the failure that was
\* caught (never the failure of an AbortMultipartUpload call), and all
\* maxAttempts attempts were made.
C9_AbortFailureNotPropagated ==
    (op = "uploadFile" /\ pc = "thrown" /\ sent["CreateMultipartUpload"] > 0) =>
        /\ Head(thrown).src = "handleRetryErrorLogging"
        /\ Tail(thrown) = caught
        /\ \A i \in 1..Len(thrown) : thrown[i].src # "AbortMultipartUpload"
        /\ attempt = maxAttempts

\* C10: every CompleteMultipartUpload call carries one part per chunk that the
\* chunk iterable gave to the attempt's loop, numbered 1, 2, ..., n in that
\* order, and the ETag of part k is the one the store returned, in the same
\* session, to the UploadPart call numbered k whose body was chunk k of the
\* source.
C10_PartList ==
    \A i \in 1..Len(completeLog) :
        LET c == completeLog[i]
        IN  /\ Len(c.Parts) = c.produced
            /\ c.produced <= CeilDiv(file.len, maxUploadPartSize)
            /\ \A k \in 1..Len(c.Parts) :
                /\ c.Parts[k].PartNumber = k
                /\ c.Parts[k].ETag =
                     [UploadId |-> c.UploadId, PartNumber |-> k,
                      Body |-> SourceChunk(k - 1, file.len, maxUploadPartSize)]

C10_Witness ==
    /\ pc = "returned"
    /\ Len(completeLog) = 2
    /\ Len(completeLog[2].Parts) = 2
    /\ completeLog[2].UploadId = 2
    /\ faults >= 2

\* ------------------------------------------------ concurrent uploads
\* Several uploadFile calls run at once on one UploadManager (separate calls,
\* or the Promise.all of uploadMultipleFiles).  Of each upload this
\* specification follows the store calls only: which command it issues, in the
\* order multipartUpload and simpleUpload issue them, and whether the call
\* waits in the limiter, is in flight or has been answered.  How many chunks
\* there are and when the retries are used up is left open.

\* No single operation runs: the values of Spec's variables in the other
\* specifications.
CoreRest ==
    /\ op = "none"
    /\ maxUploadPartSize = 1
    /\ file = NoFile
    /\ pc = "none"
    /\ attempt = 0
    /\ partAttempt = 0
    /\ uploadId = <<>>
    /\ parts = <<>>
    /\ partNumber = 1
    /\ chunk = <<>>
    /\ fileChunks = NoChunks
    /\ iter = 0
    /\ caught = <<>>
    /\ result = <<>>
    /\ thrown = <<>>
    /\ sent = [c \in Commands |-> 0]
    /\ faults = 0
    /\ sessions = {}
    /\ completeLog = <<>>
    /\ abortLog = <<>>
    /\ listing = <<>>
    /\ listOptions = NoListOptions
    /\ params = [ContinuationToken |-> <<>>]
    /\ filteredItems = <<>>
    /\ deleteAnswer = "none"
    /\ timeoutMS = DefaultTimeoutMS
    /\ timers = <<>>
    /\ now = 0
    /\ waitArg = <<>>
    /\ waitCount = 0

CoreIdle == CoreRest /\ maxAttempts = 1 /\ warnCalls = 0

\* Spec's variables but maxAttempts and warnCalls.
coreRestVars == <<op, maxUploadPartSize, file, pc, attempt, partAttempt, uploadId,
                  parts, partNumber, chunk, fileChunks, iter, caught, result, thrown,
                  sent, faults, sessions, completeLog, abortLog, listVars,
                  deleteAnswer, streamVars, waitVars>>

Uploaders == 1..MaxUploads

\* Mutant: PutObject is sent without limiter.schedule.
Scheduled_PartsOnly(c) == c = "UploadPart"

\* The store calls wrapped in this.limiter.schedule: simpleUpload's PutObject
\* and uploadPartWithRetry's UploadPart.  The others are sent directly.
Scheduled(c) == c \in {"PutObject", "UploadPart"}

\* Mutant: a job is put in front of the waiting ones.
Enqueue_Front(q, job) == <<job>> \o q

\* limiter.schedule(() => ...) without options: every job has the same
\* priority and joins the end of the limiter's queue.
Enqueue(q, job) == Append(q, job)

\* The uploads whose store call is in flight, through the limiter or directly.
InFlight == {u \in Uploaders : phase[u] \in {"running", "direct"}}

\* Mutant: a job whose store call has failed keeps its slot until the upload
\* submits its next call.
Running_HeldInBackoff ==
    {u \in Uploaders : phase[u] = "running" \/ (phase[u] = "failed" /\ Scheduled(lastCommand[u]))}

\* The jobs the limiter is running: a job leaves when the promise of its store
\* call settles, resolved or rejected.
Running == {u \in Uploaders : phase[u] = "running"}

\* The commands an upload can issue after `last` was answered (ok or not);
\* {} when the upload is over.
NextCommands(last, ok) ==
    CASE last = "none" -> {"PutObject", "CreateMultipartUpload"}
      [] last = "PutObject" -> IF ok THEN {} ELSE {"PutObject"}
      [] last = "CreateMultipartUpload" ->
            IF ok THEN {"UploadPart", "CompleteMultipartUpload"}
            ELSE {"AbortMultipartUpload"}
      [] last = "UploadPart" ->
            IF ok THEN {"UploadPart", "CompleteMultipartUpload"}
            ELSE {"UploadPart", "AbortMultipartUpload"}
      [] last = "CompleteMultipartUpload" ->
            IF ok THEN {} ELSE {"AbortMultipartUpload"}
      [] OTHER -> IF ok THEN {"CreateMultipartUpload"} ELSE {}

LimiterInit ==
    /\ DownloadIdle
    /\ CoreIdle
    /\ BatchIdle
    /\ ConfigIdle
    /\ SessionIdle
    /\ FanoutIdle
    /\ RerunIdle
    /\ \E maxUploadConcurrency \in {<<>>} \cup {<<n>> : n \in 1..MaxUploads} :
        maxConcurrent = IF maxUploadConcurrency = <<>>
                        THEN DefaultUploadConcurrency
                        ELSE maxUploadConcurrency[1]
    /\ lastCommand = [u \in Uploaders |-> "none"]
    /\ phase = [u \in Uploaders |-> "ok"]
    /\ queue = <<>>
    /\ submitOrder = <<>>

\* An upload whose last call was answered issues its next store call: through
\* limiter.schedule, where the job waits in the queue, or directly.
issueCall ==
    \E u \in Uploaders :
        /\ phase[u] \in {"ok", "failed"}
        /\ \E c \in NextCommands(lastCommand[u], phase[u] = "ok") :
            /\ lastCommand' = [lastCommand EXCEPT ![u] = c]
            /\ IF Scheduled(c)
               THEN /\ queue' = Enqueue(queue, u)
                    /\ submitOrder' = Append(submitOrder, u)
                    /\ phase' = [phase EXCEPT ![u] = "queued"]
               ELSE /\ phase' = [phase EXCEPT ![u] = "direct"]
                    /\ UNCHANGED <<queue, submitOrder>>
        /\ UNCHANGED <<maxConcurrent, coreVars, batchVars, configVars, sessionVars, fanoutVars, rerunVars, downloadVars>>

\* An upload returns after its PutObject or CompleteMultipartUpload succeeded;
\* it throws when a PutObject failed on the last attempt, when the abort
\* failed, or when the abort succeeded after the last attempt.
finishUpload ==
    \E u \in Uploaders :
        /\ \/ /\ phase[u] = "ok"
              /\ lastCommand[u] \in {"PutObject", "CompleteMultipartUpload"}
              /\ phase' = [phase EXCEPT ![u] = "returned"]
           \/ /\ phase[u] = "failed"
              /\ lastCommand[u] \in {"PutObject", "AbortMultipartUpload"}
              /\ phase' = [phase EXCEPT ![u] = "thrown"]
           \/ /\ phase[u] = "ok"
              /\ lastCommand[u] = "AbortMultipartUpload"
              /\ phase' = [phase EXCEPT ![u] = "thrown"]
        /\ UNCHANGED <<maxConcurrent, lastCommand, queue, submitOrder, coreVars, batchVars, configVars, sessionVars, fanoutVars, rerunVars, downloadVars>>

\* The limiter starts the first job of its queue when fewer than maxConcurrent
\* jobs are running.
limiterStart ==
    /\ queue # <<>>
    /\ Cardinality(Running) < maxConcurrent
    /\ phase' = [phase EXCEPT ![Head(queue)] = "running"]
    /\ queue' = Tail(queue)
    /\ submitOrder' = SelectSeq(submitOrder, LAMBDA u : u # Head(queue))
    /\ UNCHANGED <<maxConcurrent, lastCommand, coreVars, batchVars, configVars, sessionVars, fanoutVars, rerunVars, downloadVars>>

\* The store answers the call that upload u has in flight, with a response or
\* with an error.
AnswerCall(u) ==
    /\ u \in InFlight
    /\ \E ok \in BOOLEAN :
        phase' = [phase EXCEPT ![u] = IF ok THEN "ok" ELSE "failed"]
    /\ UNCHANGED <<maxConcurrent, lastCommand, queue, submitOrder, coreVars, batchVars, configVars, sessionVars, fanoutVars, rerunVars, downloadVars>>

storeAnswer == \E u \in Uploaders : AnswerCall(u)

LimiterNext == issueCall \/ finishUpload \/ limiterStart \/ storeAnswer

LimiterSpec == LimiterInit /\ [][LimiterNext]_vars

\* Every call in flight is answered and the limiter starts a job when it can.
LimiterFairSpec ==
    /\ LimiterSpec
    /\ \A u \in Uploaders : WF_vars(AnswerCall(u))
    /\ WF_vars(limiterStart)

\* ------------------------------------------- concurrent multipart uploads
\* Every uploadFile call runs multipartUpload's closure with variables of its
\* own (uploadId, attempt, parts, partNumber), and the store gives every
\* session an upload id of its own, written here as the pair of the upload
\* and of the number of its CreateMultipartUpload call.  The calls of the
\* uploads interleave; the warnings and the waits of the catch blocks are
\* followed in Spec.

\* The chunks of upload u's payload, held in memory: every attempt iterates
\* them again.  The first upload has two chunks, the others one.
ChunksOf(u) == IF u = 1 THEN 2 ELSE 1

NewTransfer == [pc |-> "createMultipartUpload", attempt |-> 0, partAttempt |-> 0,
                uploadId |-> <<>>, parts |-> <<>>, partNumber |-> 1]

\* A store call of upload u in its attempt `att`, with its input.
MultipartCall(command, u, att, id, ps, number) ==
    [command |-> command, by |-> u, attempt |-> att, UploadId |-> id, Parts |-> ps,
     PartNumber |-> number]

\* The closure of an upload that has returned or thrown is gone.
EndedTransfer(how) == [NewTransfer EXCEPT !.pc = how]

\* The store's session `id` has received its completion or its abort call.
Close(sessionsOfStore, id, how) ==
    IF id = <<>> THEN sessionsOfStore
    ELSE [sessionsOfStore EXCEPT ![id[1]] = how]

\* Mutant: the closure keeps the upload id of its first session.
AssignUploadId_Once(old, new) == IF old = <<>> THEN new ELSE old

\* `uploadId = createResponse.UploadId`
AssignUploadId(old, new) == new

\* Leaving the try block ends the scope of `parts`, `partNumber` and of
\* uploadPartWithRetry's `attempt`.
LeaveTry(t, to) == [t EXCEPT !.parts = <<>>, !.partNumber = 1, !.partAttempt = 0, !.pc = to]

SessionInit ==
    /\ CoreRest
    /\ DownloadIdle
    /\ LimiterIdle
    /\ BatchIdle
    /\ ConfigIdle
    /\ FanoutIdle
    /\ RerunIdle
    /\ maxAttempts \in 1..MaxAttemptsBound
    /\ warnCalls = 0
    /\ transfers = [u \in Uploaders |-> NewTransfer]
    /\ store = <<>>
    /\ lastCall = NoCall

\* Top of multipartUpload's loop in upload u: attempt++ and
\* CreateMultipartUpload; `uploadId = createResponse.UploadId` when the store
\* has answered, then the throw for a missing UploadId.
createSession ==
    \E u \in Uploaders :
        LET t == transfers[u]
        IN  /\ t.pc = "createMultipartUpload"
            /\ lastCall' = MultipartCall("CreateMultipartUpload", u, t.attempt + 1, <<>>, <<>>, 0)
            /\ \E answer \in {"UploadId", "no UploadId", "error"} :
                CASE answer = "UploadId" ->
                        /\ store' = (<<u, t.attempt + 1>> :> "open") @@ store
                        /\ transfers' = [transfers EXCEPT ![u] =
                              [t EXCEPT !.attempt = t.attempt + 1,
                                        !.uploadId = AssignUploadId(t.uploadId,
                                                         <<<<u, t.attempt + 1>>>>),
                                        !.parts = <<>>,
                                        !.partNumber = 1,
                                        !.partAttempt = 0,
                                        !.pc = "uploadPartWithRetry"]]
                  [] answer = "no UploadId" ->
                        /\ store' = store
                        /\ transfers' = [transfers EXCEPT ![u] =
                              [t EXCEPT !.attempt = t.attempt + 1,
                                        !.uploadId = AssignUploadId(t.uploadId, <<>>),
                                        !.pc = "abortMultipartUpload"]]
                  [] OTHER ->
                        /\ store' = store
                        /\ transfers' = [transfers EXCEPT ![u] =
                              [t EXCEPT !.attempt = t.attempt + 1,
                                        !.pc = "abortMultipartUpload"]]
            /\ UNCHANGED <<coreVars, limiterVars, batchVars, configVars, fanoutVars,
                           rerunVars, downloadVars>>

\* One turn of uploadPartWithRetry's loop in upload u, called with the
\* closure's uploadId and partNumber; then parts.push and partNumber++, and the
\* next chunk or the end of the for-await loop.
uploadPart ==
    \E u \in Uploaders :
        LET t == transfers[u]
        IN  /\ t.pc = "uploadPartWithRetry"
            /\ lastCall' = MultipartCall("UploadPart", u, t.attempt, t.uploadId, <<>>, t.partNumber)
            /\ \E ok \in BOOLEAN :
                transfers' = [transfers EXCEPT ![u] =
                    IF ok
                    THEN [t EXCEPT !.parts = PushPart(t.parts,
                                       ETagOf(t.uploadId[1], t.partNumber, <<>>),
                                       t.partNumber),
                                   !.partNumber = t.partNumber + 1,
                                   !.partAttempt = 0,
                                   !.pc = IF t.partNumber < ChunksOf(u)
                                          THEN "uploadPartWithRetry"
                                          ELSE "completeMultipartUpload"]
                    ELSE IF RetriesExhausted(t.partAttempt + 1, maxAttempts)
                         THEN LeaveTry(t, "abortMultipartUpload")
                         ELSE [t EXCEPT !.partAttempt = t.partAttempt + 1]]
            /\ UNCHANGED <<store, coreVars, limiterVars, batchVars, configVars, fanoutVars,
                           rerunVars, downloadVars>>

\* CompleteMultipartUpload of upload u with the closure's uploadId and parts.
completeSession ==
    \E u \in Uploaders :
        LET t == transfers[u]
        IN  /\ t.pc = "completeMultipartUpload"
            /\ lastCall' = MultipartCall("CompleteMultipartUpload", u, t.attempt, t.uploadId,
                                         t.parts, 0)
            /\ store' = Close(store, t.uploadId, "completed")
            /\ \E ok \in BOOLEAN :
                transfers' = [transfers EXCEPT ![u] =
                                 IF ok THEN EndedTransfer("returned")
                                 ELSE LeaveTry(t, "abortMultipartUpload")]
            /\ UNCHANGED <<coreVars, limiterVars, batchVars, configVars, fanoutVars,
                           rerunVars, downloadVars>>

\* multipartUpload's catch block in upload u: AbortMultipartUpload with the
\* closure's uploadId as it is, then handleRetryErrorLogging(attempt, ...).
abortSession ==
    \E u \in Uploaders :
        LET t == transfers[u]
        IN  /\ t.pc = "abortMultipartUpload"
            /\ lastCall' = MultipartCall("AbortMultipartUpload", u, t.attempt,
                                         AbortInput(t.uploadId), <<>>, 0)
            /\ store' = Close(store, t.uploadId, "aborted")
            /\ \E ok \in BOOLEAN :
                transfers' = [transfers EXCEPT ![u] =
                                 IF ok /\ ~RetriesExhausted(t.attempt, maxAttempts)
                                 THEN [t EXCEPT !.pc = "createMultipartUpload"]
                                 ELSE EndedTransfer("thrown")]
            /\ UNCHANGED <<coreVars, limiterVars, batchVars, configVars, fanoutVars,
                           rerunVars, downloadVars>>

SessionNext == createSession \/ uploadPart \/ completeSession \/ abortSession

SessionSpec == SessionInit /\ [][SessionNext]_vars

\* ------------------------------------------- downloadFolderToDisk's limiter
\* DownloadManager has a limiter of its own, `new Bottleneck({ maxConcurrent:
\* 6 })`; downloadFolderToDisk schedules one downloadToDisk job per listed
\* file on it.  An upload runs on UploadManager's limiter at the same time.
DownloadConcurrency == 6

Listed == DOMAIN downloads

\* Mutant: a job that has rejected keeps its slot.
RunningDownloads_HeldAfterFailure == {i \in Listed : downloads[i] \in {"running", "failed"}}

\* The jobs the download limiter is running: a job leaves when downloadToDisk
\* has returned or thrown.
RunningDownloads == {i \in Listed : downloads[i] = "running"}

\* listItems has returned up to MaxListed files; with maxUploadConcurrency 1,
\* one upload is about to send its PutObject again after a failed attempt and
\* the other uploads have returned.
FanoutInit ==
    /\ DownloadIdle
    /\ CoreIdle
    /\ BatchIdle
    /\ ConfigIdle
    /\ SessionIdle
    /\ RerunIdle
    /\ maxConcurrent = 1
    /\ lastCommand = [u \in Uploaders |-> "PutObject"]
    /\ phase = [u \in Uploaders |-> IF u = 1 THEN "failed" ELSE "returned"]
    /\ queue = <<>>
    /\ submitOrder = <<>>
    /\ \E n \in 0..MaxListed : downloads = [i \in 1..n |-> "listed"]
    /\ downloadQueue = <<>>

\* Promise.all(filesToDownload.map(async (file) => ...)): every callback runs
\* to its `await this.limiter.schedule(...)`, in the order of the list.
scheduleDownloads ==
    /\ Listed # {}
    /\ \A i \in Listed : downloads[i] = "listed"
    /\ downloads' = [i \in Listed |-> "queued"]
    /\ downloadQueue' = [i \in Listed |-> i]
    /\ UNCHANGED <<coreVars, limiterVars, batchVars, configVars, sessionVars, rerunVars,
                   downloadVars>>

\* The download limiter starts the first job of its queue when fewer than 6
\* jobs are running.
downloadStart ==
    /\ downloadQueue # <<>>
    /\ Cardinality(RunningDownloads) < DownloadConcurrency
    /\ downloads' = [downloads EXCEPT ![Head(downloadQueue)] = "running"]
    /\ downloadQueue' = Tail(downloadQueue)
    /\ UNCHANGED <<coreVars, limiterVars, batchVars, configVars, sessionVars, rerunVars,
                   downloadVars>>

\* The downloadToDisk of file i returns (the callback returns null) or throws
\* (the callback catches and returns the file).
SettleDownload(i) ==
    /\ i \in Listed
    /\ downloads[i] = "running"
    /\ \E ok \in BOOLEAN : downloads' = [downloads EXCEPT ![i] = IF ok THEN "done" ELSE "failed"]
    /\ UNCHANGED <<downloadQueue, coreVars, limiterVars, batchVars, configVars, sessionVars,
                   rerunVars, downloadVars>>

downloadSettle == \E i \in 1..MaxListed : SettleDownload(i)

FanoutNext ==
    \/ scheduleDownloads \/ downloadStart \/ downloadSettle
    \/ issueCall \/ finishUpload \/ limiterStart \/ storeAnswer

FanoutSpec == FanoutInit /\ [][FanoutNext]_vars

\* The folder download goes on: the map runs, the limiter starts a job when it
\* can, and every downloadToDisk returns or throws.
FanoutFairSpec ==
    /\ FanoutSpec
    /\ WF_vars(scheduleDownloads)
    /\ WF_vars(downloadStart)
    /\ \A i \in 1..MaxListed : WF_vars(SettleDownload(i))

\* ------------------------------------------------------- batch operations
\* uploadMultipleFiles, downloadFolderToDisk and confirmFilesExist run one
\* callback per item under Promise.all.  A name or a key is the sequence of
\* its pieces, so that `${prefix ?? ""}${name}` is a concatenation.
BatchOperations == {"uploadMultipleFiles", "downloadFolderToDisk", "confirmFilesExist"}

Name(i) == <<"file", i>>

\* The batches of n items, in both orders.
Batches(n) == {[i \in 1..n |-> Name(i)], [i \in 1..n |-> Name(n + 1 - i)]}

Items == 1..Len(names)

Settled == \A i \in Items : status[i] # "pending"

\* Mutant: the prefix is left out of the returned key.
UploadedKey_NoPrefix(pre, name) == name

\* The key uploadFile returns: `${prefix ?? ""}${file.name}`
UploadedKey(pre, name) == pre \o name

\* S3FMContext.verboseLog(message, type): logger.warn when verbose logging is
\* allowed and the type is "warn"; logger.info for "info" and for no type.
verboseLog(warns, type) ==
    IF allowVerboseLogging /\ type = "warn" THEN warns + 1 ELSE warns

\* Mutant: the nulls of the result array count as failed downloads.
FilterBoolean_KeepAll(seq) == [i \in 1..Len(seq) |-> IF seq[i] = <<>> THEN <<"null">> ELSE seq[i][1]]

\* result.filter(Boolean): the entries that are not null, in their order;
\* an entry is <<>> for null and <<key>> for a key.
RECURSIVE FilterBoolean(_)
FilterBoolean(seq) ==
    IF seq = <<>> THEN <<>>
    ELSE IF Head(seq) = <<>> THEN FilterBoolean(Tail(seq))
    ELSE <<Head(seq)[1]>> \o FilterBoolean(Tail(seq))

\* Mutant: only the error's name tells a missing file.
IsNotFound_NameOnly(answer) == answer = "NotFound"

\* confirmFilesExist's test `error.name === "NotFound" ||
\* error.$metadata?.httpStatusCode === 404`; the answer "404" is an error of
\* another name that carries the status code.
IsNotFound(answer) == answer \in {"NotFound", "404"}

BatchInit ==
    /\ CoreRest
    /\ DownloadIdle
    /\ LimiterIdle
    /\ ConfigIdle
    /\ SessionIdle
    /\ FanoutIdle
    /\ RerunIdle
    /\ maxAttempts \in 1..MaxAttemptsBound
    /\ warnCalls = 0
    /\ batchOp \in BatchOperations
    /\ batchPc = IF batchOp = "downloadFolderToDisk" THEN "listItems" ELSE "running"
    /\ \E n \in 0..MaxFiles : names \in Batches(n)
    /\ lastAnswer = [i \in Items |-> "none"]
    /\ status = [i \in Items |-> "pending"]
    /\ headAttempt = [i \in Items |-> 0]
    /\ headFaults = [i \in Items |-> 0]
    /\ filePaths = <<>>
    /\ skippedFiles = <<>>
    /\ missingFiles = <<>>
    /\ batchResult = <<>>
    /\ batchThrown = <<>>
    /\ prefix \in {<<>>, <<"dir/">>}
    /\ allowVerboseLogging \in BOOLEAN

\* One callback of uploadMultipleFiles' files.map: uploadFile returns or
\* throws, and the mutex job pushes the key or the name; the mutex runs one
\* push at a time, so a callback's push is one step.
uploadCallback ==
    /\ batchOp = "uploadMultipleFiles"
    /\ batchPc = "running"
    /\ \E i \in Items, ok \in BOOLEAN :
        /\ status[i] = "pending"
        /\ lastAnswer' = [lastAnswer EXCEPT ![i] = IF ok THEN "ok" ELSE "failed"]
        /\ status' = [status EXCEPT ![i] = "done"]
        /\ filePaths' = IF ok THEN Append(filePaths, UploadedKey(prefix, names[i]))
                        ELSE filePaths
        /\ skippedFiles' = IF ok THEN skippedFiles ELSE Append(skippedFiles, names[i])
        /\ warnCalls' = IF ok THEN warnCalls
                        ELSE verboseLog(verboseLog(warnCalls, "warn"), "warn")
    /\ UNCHANGED <<batchOp, batchPc, names, headAttempt, headFaults, missingFiles,
                   batchResult, batchThrown, prefix, allowVerboseLogging,
                   maxAttempts, coreRestVars, limiterVars, configVars, sessionVars, fanoutVars, rerunVars, downloadVars>>

\* uploadMultipleFiles after Promise.all: one logger.warn when a file was
\* skipped, and `return { filePaths, skippedFiles }`.
uploadMultipleFilesReturn ==
    /\ batchOp = "uploadMultipleFiles"
    /\ batchPc = "running"
    /\ Settled
    /\ warnCalls' = IF Len(skippedFiles) > 0 THEN warnCalls + 1 ELSE warnCalls
    /\ batchResult' = <<[filePaths |-> filePaths, skippedFiles |-> skippedFiles]>>
    /\ batchPc' = "returned"
    /\ UNCHANGED <<batchOp, names, lastAnswer, status, headAttempt, headFaults,
                   filePaths, skippedFiles, missingFiles, batchThrown, prefix,
                   allowVerboseLogging, maxAttempts, coreRestVars, limiterVars, configVars, sessionVars, fanoutVars, rerunVars, downloadVars>>

\* downloadFolderToDisk's `await this.ctx.listItems(prefix, ...)`: it throws,
\* or it returns the keys; without keys the operation returns at once.
listFolder ==
    /\ batchOp = "downloadFolderToDisk"
    /\ batchPc = "listItems"
    /\ \E ok \in BOOLEAN :
        IF ~ok
        THEN /\ batchThrown' = RetryError(StoreError("Transient", "ListObjectsV2", 0))
             /\ batchPc' = "thrown"
             /\ UNCHANGED batchResult
        ELSE IF Len(names) = 0
        THEN /\ batchResult' = <<[success |-> TRUE, message |-> "No files found",
                                  downloadedFiles |-> 0, failedToDownload |-> <<>>]>>
             /\ batchPc' = "returned"
             /\ UNCHANGED batchThrown
        ELSE /\ batchPc' = "running"
             /\ UNCHANGED <<batchResult, batchThrown>>
    /\ UNCHANGED <<batchOp, names, lastAnswer, status, headAttempt, headFaults,
                   filePaths, skippedFiles, missingFiles, prefix, allowVerboseLogging,
                   maxAttempts, warnCalls, coreRestVars, limiterVars, configVars, sessionVars, fanoutVars, rerunVars, downloadVars>>

\* One callback of downloadFolderToDisk's filesToDownload.map: the scheduled
\* downloadToDisk returns (the callback returns null) or throws (the callback
\* logs verbosely and returns the key).
downloadCallback ==
    /\ batchOp = "downloadFolderToDisk"
    /\ batchPc = "running"
    /\ \E i \in Items, ok \in BOOLEAN :
        /\ status[i] = "pending"
        /\ lastAnswer' = [lastAnswer EXCEPT ![i] = IF ok THEN "ok" ELSE "failed"]
        /\ status' = [status EXCEPT ![i] = "done"]
        /\ warnCalls' = IF ok THEN warnCalls ELSE verboseLog(warnCalls, "warn")
    /\ UNCHANGED <<batchOp, batchPc, names, headAttempt, headFaults, filePaths,
                   skippedFiles, missingFiles, batchResult, batchThrown, prefix,
                   allowVerboseLogging, maxAttempts, coreRestVars, limiterVars, configVars, sessionVars, fanoutVars, rerunVars, downloadVars>>

\* The array Promise.all resolves with: per file, in the files' order, what
\* its callback returned.
DownloadResults ==
    [i \in Items |-> IF lastAnswer[i] = "failed" THEN <<names[i]>> ELSE <<>>]

\* downloadFolderToDisk after Promise.all: the three-way result.
downloadFolderToDiskReturn ==
    /\ batchOp = "downloadFolderToDisk"
    /\ batchPc = "running"
    /\ Settled
    /\ LET failedToDownload == FilterBoolean(DownloadResults)
       IN  batchResult' =
             IF Len(failedToDownload) = 0
             THEN <<[success |-> TRUE, message |-> "All files successfully downloaded",
                     downloadedFiles |-> Len(names),
                     failedToDownload |-> failedToDownload]>>
             ELSE IF Len(failedToDownload) = Len(names)
             THEN <<[success |-> FALSE, message |-> "All files failed to download",
                     downloadedFiles |-> 0,
                     failedToDownload |-> failedToDownload]>>
             ELSE <<[success |-> TRUE, message |-> "Some files failed to download",
                     downloadedFiles |-> Len(names) - Len(failedToDownload),
                     failedToDownload |-> failedToDownload]>>
    /\ batchPc' = "returned"
    /\ UNCHANGED <<batchOp, names, lastAnswer, status, headAttempt, headFaults,
                   filePaths, skippedFiles, missingFiles, batchThrown, prefix,
                   allowVerboseLogging, maxAttempts, warnCalls, coreRestVars,
                   limiterVars, configVars, sessionVars, fanoutVars, rerunVars, downloadVars>>

\* One turn of the loop of one callback of confirmFilesExist's filenames.map:
\* attempt++, HeadObject; an answer ends the loop, a not-found error pushes
\* the filename and ends the loop, another error goes to
\* handleRetryErrorLogging, whose throw rejects Promise.all while the other
\* callbacks go on.
headObject ==
    /\ batchOp = "confirmFilesExist"
    /\ \E i \in Items, answer \in {"found", "NotFound", "404", "error"} :
        /\ status[i] = "pending"
        /\ headAttempt' = [headAttempt EXCEPT ![i] = @ + 1]
        /\ lastAnswer' = [lastAnswer EXCEPT ![i] = answer]
        /\ headFaults' = [headFaults EXCEPT ![i] = IF answer = "error" THEN @ + 1 ELSE @]
        /\ CASE answer = "found" ->
                   /\ status' = [status EXCEPT ![i] = "done"]
                   /\ UNCHANGED <<missingFiles, warnCalls, batchThrown, batchPc>>
             [] answer # "found" /\ IsNotFound(answer) ->
                   /\ missingFiles' = Append(missingFiles, names[i])
                   /\ status' = [status EXCEPT ![i] = "done"]
                   /\ warnCalls' = verboseLog(warnCalls, "info")
                   /\ UNCHANGED <<batchThrown, batchPc>>
             [] OTHER ->
                   LET h == handleRetryErrorLogging(headAttempt[i] + 1,
                                StoreError("Transient", "HeadObject", i))
                   IN  /\ warnCalls' = h.warns
                       /\ status' = [status EXCEPT ![i] = IF h.throws THEN "threw" ELSE "pending"]
                       /\ batchThrown' = IF h.throws /\ batchPc = "running"
                                         THEN h.error ELSE batchThrown
                       /\ batchPc' = IF h.throws THEN "thrown" ELSE batchPc
                       /\ UNCHANGED missingFiles
    /\ UNCHANGED <<batchOp, names, filePaths, skippedFiles, batchResult, prefix,
                   allowVerboseLogging, maxAttempts, coreRestVars, limiterVars, configVars, sessionVars, fanoutVars, rerunVars, downloadVars>>

\* confirmFilesExist after Promise.all: `return missingFiles`
confirmFilesExistReturn ==
    /\ batchOp = "confirmFilesExist"
    /\ batchPc = "running"
    /\ Settled
    /\ batchResult' = <<missingFiles>>
    /\ batchPc' = "returned"
    /\ UNCHANGED <<batchOp, names, lastAnswer, status, headAttempt, headFaults,
                   filePaths, skippedFiles, missingFiles, batchThrown, prefix,
                   allowVerboseLogging, maxAttempts, warnCalls, coreRestVars,
                   limiterVars, configVars, sessionVars, fanoutVars, rerunVars, downloadVars>>

BatchNext ==
    \/ uploadCallback
    \/ uploadMultipleFilesReturn
    \/ listFolder
    \/ downloadCallback
    \/ downloadFolderToDiskReturn
    \/ headObject
    \/ confirmFilesExistReturn

BatchSpec == BatchInit /\ [][BatchNext]_vars

\* ------------------------------------------------------- retry state
\* The operations that run several retry loops: listItems, one per page, and
\* confirmFilesExist, one per file.
RetryStateInit ==
    \/ Start({"listItems"}, {NoFile}, Listings, 1..MaxAttemptsBound)
    \/ BatchInit /\ batchOp = "confirmFilesExist"

RetryStateNext == listItems \/ headObject \/ confirmFilesExistReturn

RetryStateSpec == RetryStateInit /\ [][RetryStateNext]_vars

\* The elements of a sequence.
Range(seq) == {seq[k] : k \in 1..Len(seq)}

\* The items whose transfer failed.
Failed == {i \in Items : lastAnswer[i] = "failed"}

\* C13: uploadMultipleFiles isolates the files of a batch: whichever files
\* fail and in whatever order the uploads end, it does not throw, and it
\* returns the names of exactly the failed files in skippedFiles, the
\* destination keys (prefix and name) of exactly the others in filePaths,
\* every file once: |filePaths| + |skippedFiles| = N.
C13_BatchIsolation ==
    batchOp = "uploadMultipleFiles" =>
        /\ batchPc # "thrown"
        /\ batchThrown = <<>>
        /\ batchPc = "returned" =>
            LET r == batchResult[1]
            IN  /\ Range(r.skippedFiles) = {names[i] : i \in Failed}
                /\ Len(r.skippedFiles) = Cardinality(Failed)
                /\ Range(r.filePaths) = {prefix \o names[i] : i \in Items \ Failed}
                /\ Len(r.filePaths) = Len(names) - Cardinality(Failed)
                /\ Len(r.filePaths) + Len(r.skippedFiles) = Len(names)

C13_Witness ==
    /\ batchOp = "uploadMultipleFiles"
    /\ batchPc = "returned"
    /\ prefix # <<>>
    /\ Len(names) = 3
    /\ names[1] = Name(1)
    /\ Failed = {2}
    /\ batchResult[1].filePaths = <<prefix \o names[3], prefix \o names[1]>>

\* C14: downloadFolderToDisk does not throw because a file's download failed
\* (it throws only when the listing does, before any download); success is
\* true unless every listed file failed, and true when no file was listed;
\* downloadedFiles + |failedToDownload| is the number of listed files;
\* failedToDownload holds exactly the keys whose download threw, each once;
\* and the message tells apart no files, all succeeded, some failed and all
\* failed.
C14_FolderDownloadResult ==
    batchOp = "downloadFolderToDisk" =>
        /\ batchPc = "thrown" => \A i \in Items : lastAnswer[i] = "none"
        /\ batchPc = "returned" =>
            LET r == batchResult[1]
            IN  /\ r.success = ~(Len(names) > 0 /\ Failed = Items)
                /\ r.downloadedFiles + Len(r.failedToDownload) = Len(names)
                /\ Range(r.failedToDownload) = {names[i] : i \in Failed}
                /\ Len(r.failedToDownload) = Cardinality(Failed)
                /\ r.message =
                     CASE Len(names) = 0 -> "No files found"
                       [] Len(names) > 0 /\ Failed = {} ->
                            "All files successfully downloaded"
                       [] Len(names) > 0 /\ Failed = Items ->
                            "All files failed to download"
                       [] OTHER -> "Some files failed to download"

C14_Witness ==
    /\ batchOp = "downloadFolderToDisk"
    /\ batchPc = "returned"
    /\ Len(names) = 3
    /\ Failed = {1, 3}
    /\ batchResult[1].success
    /\ batchResult[1].downloadedFiles = 1

RECURSIVE SumTo(_, _)
SumTo(f, n) == IF n = 0 THEN 0 ELSE f[n] + SumTo(f, n - 1)

\* The head calls whose transient failure was followed by a retry.
RetriedHeads ==
    SumTo([i \in Items |-> headFaults[i] - (IF status[i] = "threw" THEN 1 ELSE 0)],
          Len(names))

\* C16: in confirmFilesExist a not-found answer (by the error's name or by
\* its 404 status) ends the file's loop at once and without an error: the
\* answering call is the file's last one (one call more than the transient
\* failures before it; the only call when there were none), the filename is
\* in the missing list exactly once, and no warning is logged for it (the
\* warnings are the two of each retried transient failure).  A transient
\* failure is retried until maxAttempts.  The returned list holds exactly
\* the files whose head call answered not-found.
C16_NotFoundEndsLoop ==
    batchOp = "confirmFilesExist" =>
        LET Missing == {i \in Items : lastAnswer[i] \in {"NotFound", "404"}}
        IN  /\ \A i \in Missing :
                /\ status[i] = "done"
                /\ headAttempt[i] = headFaults[i] + 1
                /\ Cardinality({k \in 1..Len(missingFiles) : missingFiles[k] = names[i]}) = 1
            /\ \A i \in Items : lastAnswer[i] = "error" =>
                /\ headAttempt[i] = headFaults[i]
                /\ IF headAttempt[i] < maxAttempts
                   THEN status[i] = "pending" ELSE status[i] = "threw"
            /\ warnCalls = 2 * RetriedHeads
            /\ Range(missingFiles) = {names[i] : i \in Missing}
            /\ batchPc = "returned" =>
                /\ batchResult = <<missingFiles>>
                /\ batchThrown = <<>>

C16_Witness ==
    /\ batchOp = "confirmFilesExist"
    /\ batchPc = "returned"
    /\ allowVerboseLogging
    /\ \E i, j, k \in Items :
        /\ lastAnswer[i] = "404" /\ headAttempt[i] = 2
        /\ lastAnswer[j] = "NotFound" /\ headAttempt[j] = 1
        /\ lastAnswer[k] = "found"
    /\ warnCalls = 2

\* The keys of page k that listItems is asked for: its Contents, or its
\* CommonPrefixes when only directories are listed.
PageKeys(k) ==
    IF listOptions.directoriesOnly THEN listing[k].CommonPrefixes
    ELSE listing[k].Contents

\* How often a key that is not empty and passes the filter occurs in the
\* pages 1..n.
ListedCount(x, n) ==
    IF x = <<>> \/ ~PassesFilter(x, listOptions.filterFn) THEN 0
    ELSE Cardinality({kj \in UNION {{<<k, j>> : j \in DOMAIN PageKeys(k)} : k \in 1..n} :
                         PageKeys(kj[1])[kj[2]] = x})

Occurrences(seq, x) == Cardinality({j \in 1..Len(seq) : seq[j] = x})

\* C15: listItems fetches the pages one after another: the request that
\* follows k successful fetches carries the token the k-th page returned
\* (none before the first), so that every page is fetched successfully
\* exactly once and a failed fetch is repeated with the same token; it stops
\* after the first page without a token, with as many successful fetches as
\* there are pages, and returns, sorted, every key of every page (every key
\* that is not empty and passes the filter, as often as the pages hold it).
C15_Pagination ==
    op = "listItems" =>
        LET fetched == sent["ListObjectsV2"] - faults
        IN  /\ fetched <= Len(listing)
            /\ pc = "listItems" =>
                /\ fetched < Len(listing)
                /\ params.ContinuationToken =
                     IF fetched = 0 THEN <<>> ELSE <<fetched + 1>>
                /\ \A x \in Range(filteredItems) :
                     Occurrences(filteredItems, x) = ListedCount(x, fetched)
            /\ pc = "thrown" => fetched < Len(listing)
            /\ pc = "returned" =>
                LET items == result[1].items
                IN  /\ fetched = Len(listing)
                    /\ \A k \in 1..Len(listing) : \A j \in DOMAIN PageKeys(k) :
                         Occurrences(items, PageKeys(k)[j])
                           = ListedCount(PageKeys(k)[j], Len(listing))
                    /\ \A x \in Range(items) : ListedCount(x, Len(listing)) > 0
                    /\ \A i, j \in 1..Len(items) :
                         i < j => ~ComesBefore(items[j], items[i], listOptions.compareFn)

C15_Witness ==
    /\ op = "listItems"
    /\ pc = "returned"
    /\ Len(listing) = 3
    /\ listOptions = NoListOptions
    /\ result[1].items = << <<1>>, <<2>>, <<3>>, <<4>>, <<5>> >>
    /\ sent["ListObjectsV2"] - faults = 3
    /\ faults = 2

\* C17: deleteFile of a key the store does not hold (a NoSuchKey answer)
\* returns { deleted: false, reason: "File not found" } and does not throw;
\* the answered call is not retried: it is the last DeleteObject call, one
\* more than the transient failures retried before it, and logs one warning.
C17_DeleteMissingFile ==
    (op = "deleteFile" /\ deleteAnswer = "NoSuchKey") =>
        /\ pc = "returned"
        /\ thrown = <<>>
        /\ result = <<[success |-> FALSE, deleted |-> FALSE, reason |-> "File not found"]>>
        /\ sent["DeleteObject"] = faults + 1
        /\ attempt = sent["DeleteObject"]
        /\ warnCalls = 2 * faults + 1

C17_Witness ==
    /\ op = "deleteFile"
    /\ deleteAnswer = "NoSuchKey"
    /\ faults = 1
    /\ sent["DeleteObject"] = 2
    /\ pc = "returned"

\* C18: when moveFile or renameFile has copied the file and the deletion of
\* the original fails on every attempt, the method does not throw: it
\* returns originalDeleted = false and leaves the copy in place.
C18_DeleteFailureNotThrown ==
    (/\ op \in {"moveFile", "renameFile"}
     /\ deleteAnswer = "error"
     /\ attempt = maxAttempts) =>
        /\ pc = "returned"
        /\ thrown = <<>>
        /\ result = <<[success |-> TRUE, originalDeleted |-> FALSE]>>

\* The attempts of getStream that a timeout ended.
TimedOut == {k \in 1..Len(timers) : timers[k].state = "fired"}

\* C19: every attempt of getStream runs under a timer of its own, set to
\* timeoutMS (10000 when not given) from the attempt's start.  A timer fires
\* no earlier than that, aborts the call in flight and counts as one failed
\* attempt (logged with a warning of its own), which is retried up to
\* maxAttempts and then thrown.  A timer runs only while its attempt's call is
\* in flight: on every exit of an attempt its timer is cleared or has fired,
\* so that the Body returned stays open.
C19_StreamTimeout ==
    op = "getStream" =>
        /\ Len(timers) = attempt
        /\ attempt = sent["GetObject"]
        /\ attempt <= maxAttempts
        /\ \A k \in 1..Len(timers) :
            /\ timers[k].state = "armed" => (k = attempt /\ pc = "awaitSend")
            /\ timers[k].state = "fired" => now >= timers[k].deadline
            /\ k > 1 => timers[k].deadline >= timers[k - 1].deadline
        /\ attempt > 0 => timers[1].deadline = timeoutMS
        /\ faults = attempt - (IF pc \in {"awaitSend", "returned"} THEN 1 ELSE 0)
        /\ Cardinality(TimedOut) <= faults
        /\ warnCalls = 2 * (faults - (IF pc = "thrown" THEN 1 ELSE 0)) + Cardinality(TimedOut)
        /\ pc = "thrown" => attempt = maxAttempts
        /\ pc = "returned" => result = <<[Body |-> "open"]>>

C19_Witness ==
    /\ op = "getStream"
    /\ pc = "returned"
    /\ timeoutMS = DefaultTimeoutMS
    /\ attempt = 2
    /\ timers[1].state = "fired"
    /\ timers[2].state = "cleared"
    /\ timers[2].deadline = 2 * DefaultTimeoutMS
    /\ now = DefaultTimeoutMS + DefaultTimeoutMS \div 2

\* C20: every wait is the one before the next attempt: it is taken for an
\* attempt number a >= 1 and lies in [d/2, d] with d = min(10000, 100 * 2^(a-1)),
\* hence it is at least 50 ms and at most 10 s; and it is taken only between
\* two attempts: after a failed call, never before the first call and never
\* after the failure that ends the operation.
C20_BackoffWindow ==
    /\ waitArg # <<>> =>
        LET a == waitArg[1]
        IN  /\ a >= 1
            /\ \A r \in Randoms :
                LET w == backoffDelay(a, r)
                    d == Min(10000, 100 * 2 ^ (a - 1))
                IN  2 * w >= d /\ w <= d /\ w >= 50 /\ w <= 10000
    /\ waitCount <= faults
    /\ pc = "thrown" => waitCount < faults
    /\ TotalSent = 0 => waitCount = 0

\* ------------------------------------------------------- S3FMContext's constructor
\* Mutant: the limits themselves are accepted.
PartSize_Inclusive(userMaxPartSize) ==
    IF userMaxPartSize >= MIN_UPLOAD_PART_SIZE /\ userMaxPartSize <= MAX_UPLOAD_PART_SIZE
    THEN userMaxPartSize
    ELSE DEFAULT_UPLOAD_PART_SIZE

\* `userMaxPartSize > MIN_UPLOAD_PART_SIZE && userMaxPartSize < MAX_UPLOAD_PART_SIZE
\*  ? userMaxPartSize : DEFAULT_UPLOAD_PART_SIZE`
PartSize(userMaxPartSize) ==
    IF userMaxPartSize > MIN_UPLOAD_PART_SIZE /\ userMaxPartSize < MAX_UPLOAD_PART_SIZE
    THEN userMaxPartSize
    ELSE DEFAULT_UPLOAD_PART_SIZE

\* `config.maxUploadPartSizeMB ? config.maxUploadPartSizeMB * 1024 * 1024 : 0`:
\* undefined and 0 are falsy.
UserMaxPartSize(mb) ==
    IF mb # <<>> /\ mb[1] # 0 THEN mb[1] * 1024 * 1024 ELSE 0

\* `option ?? default`
OrDefault(option, default) == IF option = <<>> THEN default ELSE option[1]

Configs ==
    [maxUploadPartSizeMB : {<<>>} \cup {<<mb>> : mb \in {-1, 0, 1, 4, 5, 6, 10, 50, 99, 100, 101, 200}},
     maxAttempts : {<<>>} \cup {<<n>> : n \in 1..MaxAttemptsBound},
     verboseLogging : {<<>>, <<TRUE>>, <<FALSE>>}]

ConfigInit ==
    /\ CoreRest
    /\ DownloadIdle
    /\ maxAttempts = 1
    /\ warnCalls = 0
    /\ LimiterIdle
    /\ BatchIdle
    /\ RerunIdle
    /\ config \in Configs
    /\ ctx = <<>>
    /\ SessionIdle
    /\ FanoutIdle

\* new S3FMContext(config)
construct ==
    /\ ctx = <<>>
    /\ ctx' = <<[maxAttempts |-> OrDefault(config.maxAttempts, MAX_ATTEMPTS_DEFAULT),
                 maxUploadPartSize |-> PartSize(UserMaxPartSize(config.maxUploadPartSizeMB)),
                 allowVerboseLogging |-> OrDefault(config.verboseLogging, FALSE)]>>
    /\ UNCHANGED <<config, maxAttempts, warnCalls, op, maxUploadPartSize, file, pc,
                   attempt, partAttempt, uploadId, parts, partNumber, chunk, fileChunks,
                   iter, caught, result, thrown, sent, faults, sessions, completeLog,
                   abortLog, listVars, deleteAnswer, streamVars, waitVars,
                   limiterVars, batchVars, rerunVars, downloadVars,
                   sessionVars, fanoutVars>>

ConfigNext == construct

ConfigSpec == ConfigInit /\ [][ConfigNext]_vars

\* C21 as stated: the effective part size is the configured value when it
\* lies within 5 MiB to 100 MiB, the limits included, and 10 MiB otherwise.
C21_PartSizeWithinLimits ==
    ctx # <<>> =>
        LET mb == config.maxUploadPartSizeMB
        IN  ctx[1].maxUploadPartSize =
              IF mb # <<>> /\ 5 <= mb[1] /\ mb[1] <= 100
              THEN mb[1] * 1024 * 1024 ELSE 10 * 1024 * 1024

\* C21, amended: the effective part size is the configured value when it lies
\* strictly between 5 MiB and 100 MiB, and the default 10 MiB otherwise: for
\* undefined, 0, a negative value, exactly 5, exactly 100 and any value above
\* 100; it is never the nearest limit of an out-of-range value, and
\* 5 MiB < maxUploadPartSize < 100 MiB in every context.
C21_PartSizeStrictlyWithinLimits ==
    ctx # <<>> =>
        LET mb == config.maxUploadPartSizeMB
            size == ctx[1].maxUploadPartSize
        IN  /\ size = IF mb # <<>> /\ 5 < mb[1] /\ mb[1] < 100
                      THEN mb[1] * 1024 * 1024 ELSE 10 * 1024 * 1024
            /\ 5 * 1024 * 1024 < size
            /\ size < 100 * 1024 * 1024
            /\ (mb # <<>> /\ mb[1] <= 5) => size # 5 * 1024 * 1024
            /\ (mb # <<>> /\ mb[1] >= 100) => size # 100 * 1024 * 1024

C21_Witness ==
    /\ ctx # <<>>
    /\ config.maxUploadPartSizeMB = <<100>>
    /\ ctx[1].maxUploadPartSize = DEFAULT_UPLOAD_PART_SIZE

\* ------------------------------------------------------- a repeated simple upload
\* uploadFile on the simple route, called again with the same file and the
\* same prefix once it has returned.
Runs == 1..2

\* Mutant: the object is written under the file's name alone.
PutKey_NoPrefix(pre, name) == name

\* simpleUpload's `const key = `${prefix ?? ""}${file.name}``, the Key of its
\* PutObjectCommand
PutKey(pre, name) == pre \o name

RerunInit ==
    /\ CoreRest
    /\ DownloadIdle
    /\ LimiterIdle
    /\ BatchIdle
    /\ ConfigIdle
    /\ SessionIdle
    /\ FanoutIdle
    /\ maxAttempts \in 1..MaxAttemptsBound
    /\ warnCalls = 0
    /\ run = 1
    /\ uploadInput \in [name : {Name(1), Name(2)}, prefix : {<<>>, <<"dir/">>, <<"a/", "b/">>}]
    /\ runPc = "simpleUpload"
    /\ runAttempt = 0
    /\ putKeys = [r \in Runs |-> <<>>]
    /\ returnedKeys = [r \in Runs |-> <<>>]

\* One turn of simpleUpload's loop in the current run: attempt++, PutObject
\* under `key`, return the destination key or catch.
simpleUploadRun ==
    /\ runPc = "simpleUpload"
    /\ runAttempt' = runAttempt + 1
    /\ putKeys' = [putKeys EXCEPT ![run] = Append(@, PutKey(uploadInput.prefix, uploadInput.name))]
    /\ \E ok \in BOOLEAN :
        IF ok
        THEN /\ returnedKeys' = [returnedKeys EXCEPT
                                   ![run] = <<UploadedKey(uploadInput.prefix, uploadInput.name)>>]
             /\ runPc' = "returned"
             /\ UNCHANGED warnCalls
        ELSE LET h == handleRetryErrorLogging(runAttempt + 1,
                          StoreError("Transient", "PutObject", Len(putKeys[run]) + 1))
             IN  /\ warnCalls' = h.warns
                 /\ runPc' = IF h.throws THEN "thrown" ELSE "simpleUpload"
                 /\ UNCHANGED returnedKeys
    /\ UNCHANGED <<run, uploadInput, maxAttempts, coreRestVars, limiterVars, batchVars,
                   configVars, sessionVars, fanoutVars, downloadVars>>

\* The caller calls uploadFile again with the same input.
runAgain ==
    /\ runPc = "returned"
    /\ run + 1 \in Runs
    /\ run' = run + 1
    /\ runAttempt' = 0
    /\ runPc' = "simpleUpload"
    /\ UNCHANGED <<uploadInput, putKeys, returnedKeys, maxAttempts, warnCalls,
                   coreRestVars, limiterVars, batchVars, configVars, sessionVars, fanoutVars, downloadVars>>

RerunNext == simpleUploadRun \/ runAgain

RerunSpec == RerunInit /\ [][RerunNext]_vars

SourceFailed ==
    /\ op = "uploadFile"
    /\ Broken(file)
    /\ \/ pc = "thrown" /\ thrown = PreparationError(ReadError)
       \/ fileChunks.kind = "generator" /\ fileChunks.pos >= file.breaks

\* C23: a preparation failure (the source errors while it is read) is not
\* retried: once the source has failed, in the buffered route and in the
\* streamed route alike, no create-session or part-upload call follows (the
\* failure happens within the first attempt, whose only session is the one
\* opened before the read), the source is not read again, and the operation
\* can only end thrown.
C23_PreparationFailureNotRetried ==
    SourceFailed =>
        /\ sent["CreateMultipartUpload"] <= 1
        /\ attempt <= 1
        /\ pc \in {"thrown", "abortMultipartUpload"}
        /\ pc = "thrown" /\ thrown = PreparationError(ReadError) => TotalSent = 0

\* ------------------------------------------------------- DownloadManager
\* downloadToDisk, run twice against the same answers of the store and of the
\* file system: once with verbose logging, once without.

\* `200 * 1024 * 1024`: the largest content length downloadToDisk buffers
BufferLimit == 200 * 1024 * 1024

\* Mutant: every reported length is buffered.
UseBuffer_AnyLength(contentLength) == contentLength # <<>> /\ contentLength[1] # 0

\* downloadToDisk's `fileMetadata.contentLength &&
\* fileMetadata.contentLength <= 200 * 1024 * 1024`
UseBuffer(contentLength) ==
    contentLength # <<>> /\ contentLength[1] # 0 /\ contentLength[1] <= BufferLimit

\* What a HeadObject answer tells: ContentType and ContentLength, either of
\* which may be missing.
Metadatas ==
    {[mimeType |-> <<"application/json">>, contentLength |-> <<>>],
     [mimeType |-> <<"text/plain">>, contentLength |-> <<0>>],
     [mimeType |-> <<>>, contentLength |-> <<1>>],
     [mimeType |-> <<"text/plain">>, contentLength |-> <<BufferLimit>>],
     [mimeType |-> <<"application/json">>, contentLength |-> <<BufferLimit + 1>>]}

\* The bytes a GetObject answer streams.
Bodies == {<<>>, Content(MaxLen)}

\* The answers to the calls of the operation: of the store to HeadObject and
\* GetObject, of the file system to writeFile and pipeline.
HeadAnswers ==
    {[name |-> "ok", data |-> <<md>>] : md \in Metadatas}
        \cup {[name |-> n, data |-> <<>>] : n \in {"NotFound", "404", "error"}}

GetAnswers ==
    {[name |-> "ok", data |-> <<b>>] : b \in Bodies}
        \cup {[name |-> n, data |-> <<>>] : n \in {"noBody", "NoSuchKey", "error"}}

FsAnswers == {[name |-> n, data |-> <<>>] : n \in {"ok", "fsError"}}

\* The second run is answered as the first was, call by call.
ReplyTo(command, answers) ==
    IF firstRun # NoRun /\ Len(calls) < Len(firstRun.calls)
          /\ firstRun.calls[Len(calls) + 1].command = command
    THEN {firstRun.calls[Len(calls) + 1].answer}
    ELSE answers

\* A call as it is recorded.
Call(command, answer) == [command |-> command, answer |-> answer]

\* getStream's `throw new Error(`File ${filePath} not found in bucket ...`)` and
\* getFileMetadata's `throw new Error(`File ${filePath} not found`)`
NotFoundError(command) == <<[name |-> "Error", src |-> "not found", at |-> 0]>>

\* A retry loop inside the operation (getStream's, getFileMetadata's) has
\* caught `error` on its attempt `att`: handleRetryErrorLogging throws, which
\* downloadToDisk does not catch, or the loop goes on.
Caught(att, error, again) ==
    LET h == handleRetryErrorLogging(att, error)
    IN  [pc |-> IF h.throws THEN "thrown" ELSE again, thrown |-> h.error,
         warns |-> h.warns]

DownloadInit ==
    /\ CoreRest
    /\ LimiterIdle
    /\ BatchRestIdle
    /\ ConfigIdle
    /\ SessionIdle
    /\ FanoutIdle
    /\ RerunIdle
    /\ maxAttempts \in 1..MaxAttemptsBound
    /\ warnCalls = 0
    /\ allowVerboseLogging \in BOOLEAN
    /\ dlPc = "getFileMetadata"
    /\ getAttempt = 0
    /\ metaAttempt = 0
    /\ calls = <<>>
    /\ fileMetadata = NoMetadata
    /\ stream = <<>>
    /\ fileBuffer = <<>>
    /\ outputFilename \in BOOLEAN
    /\ written = <<>>
    /\ dlThrown = <<>>
    /\ firstRun = NoRun

\* What the download actions leave alone.
downloadRestVars == <<maxAttempts, allowVerboseLogging, outputFilename, firstRun,
                      coreRestVars, limiterVars, batchRestVars, configVars, sessionVars, fanoutVars, rerunVars>>

\* getFileMetadata: one turn of its loop, a HeadObject call. It is called by
\* downloadToDisk first of all, and by getFileFormat when no MIME type was
\* passed to it; a not-found answer is thrown from the catch, past
\* handleRetryErrorLogging. A missing ContentType is told with logger.warn.
getFileMetadata ==
    /\ dlPc \in {"getFileMetadata", "getFileFormat"}
    /\ \E answer \in ReplyTo("HeadObject", HeadAnswers) :
        LET att == metaAttempt + 1
            md == IF answer.name = "ok" THEN answer.data[1] ELSE NoMetadata
            missing == IF md.mimeType = <<>> THEN 1 ELSE 0
            o == CASE answer.name = "ok" /\ dlPc = "getFileMetadata" ->
                        [pc |-> "getStream", thrown |-> <<>>, warns |-> warnCalls + missing]
                   [] answer.name = "ok" ->
                        [pc |-> "writeFile", thrown |-> <<>>, warns |-> warnCalls + missing]
                   [] IsNotFound(answer.name) ->
                        [pc |-> "thrown", thrown |-> NotFoundError("HeadObject"),
                         warns |-> warnCalls]
                   [] OTHER -> Caught(att, StoreError("Transient", "HeadObject", Len(calls) + 1),
                                      dlPc)
        IN  /\ metaAttempt' = att
            /\ calls' = Append(calls, Call("HeadObject", answer))
            /\ dlPc' = o.pc
            /\ dlThrown' = o.thrown
            /\ warnCalls' = o.warns
            /\ fileMetadata' = IF answer.name = "ok" /\ dlPc = "getFileMetadata"
                               THEN md ELSE fileMetadata
            /\ getAttempt' = 0
    /\ UNCHANGED <<stream, fileBuffer, written, downloadRestVars>>

\* getStream as downloadToDisk calls it: one turn of its loop, a GetObject
\* call; a timeout is one of the errors. On a Body downloadToDisk reads it
\* into a buffer (streamToBuffer) when the reported length says so, and calls
\* getFileFormat unless an output file name was given (getFileFormat asks the
\* store only when the metadata had no MIME type).
getStreamCall ==
    /\ dlPc = "getStream"
    /\ \E answer \in ReplyTo("GetObject", GetAnswers) :
        LET att == getAttempt + 1
            buffers == UseBuffer(fileMetadata.contentLength)
            error == IF answer.name = "noBody"
                     THEN NotFoundError("GetObject")
                     ELSE StoreError(answer.name, "GetObject", Len(calls) + 1)
            o == IF answer.name = "ok"
                 THEN [pc |-> IF outputFilename \/ fileMetadata.mimeType # <<>>
                              THEN "writeFile" ELSE "getFileFormat",
                       thrown |-> <<>>, warns |-> verboseLog(warnCalls, "info")]
                 ELSE Caught(att, error, "getStream")
        IN  /\ getAttempt' = att
            /\ calls' = Append(calls, Call("GetObject", answer))
            /\ dlPc' = o.pc
            /\ dlThrown' = o.thrown
            /\ warnCalls' = o.warns
            /\ stream' = IF answer.name = "ok" /\ ~buffers THEN answer.data ELSE <<>>
            /\ fileBuffer' = IF answer.name = "ok" /\ buffers THEN answer.data ELSE <<>>
            /\ metaAttempt' = 0
    /\ UNCHANGED <<fileMetadata, written, downloadRestVars>>

\* downloadToDisk's end: mkdir, then `if (fileBuffer) writeFile(...) else
\* pipeline(stream, createWriteStream(...))`; a Buffer is an object, hence
\* truthy also when it is empty. An error of the file system is thrown as is.
writeToDisk ==
    /\ dlPc = "writeFile"
    /\ LET route == IF fileBuffer # <<>> THEN "writeFile" ELSE "pipeline"
       IN  \E answer \in ReplyTo(route, FsAnswers) :
            /\ calls' = Append(calls, Call(route, answer))
            /\ IF answer.name = "ok"
               THEN /\ written' = Append(written,
                                    [route |-> route,
                                     bytes |-> IF route = "writeFile"
                                               THEN fileBuffer[1] ELSE stream[1]])
                    /\ dlPc' = "returned"
                    /\ warnCalls' = verboseLog(warnCalls, "info")
                    /\ dlThrown' = dlThrown
               ELSE /\ written' = written
                    /\ dlPc' = "thrown"
                    /\ warnCalls' = warnCalls
                    /\ dlThrown' = StoreError("fsError", route, Len(calls) + 1)
    /\ UNCHANGED <<getAttempt, metaAttempt, fileMetadata, stream, fileBuffer,
                   downloadRestVars>>

\* downloadToDisk is called again with the same arguments on a context that
\* differs in verboseLogging only.
downloadAgain ==
    /\ dlPc \in {"returned", "thrown"}
    /\ firstRun = NoRun
    /\ firstRun' = [calls |-> calls, pc |-> dlPc, thrown |-> dlThrown,
                    written |-> written, warns |-> warnCalls,
                    verbose |-> allowVerboseLogging]
    /\ allowVerboseLogging' = ~allowVerboseLogging
    /\ dlPc' = "getFileMetadata"
    /\ getAttempt' = 0
    /\ metaAttempt' = 0
    /\ calls' = <<>>
    /\ fileMetadata' = NoMetadata
    /\ stream' = <<>>
    /\ fileBuffer' = <<>>
    /\ written' = <<>>
    /\ dlThrown' = <<>>
    /\ warnCalls' = 0
    /\ UNCHANGED <<maxAttempts, outputFilename, coreRestVars, limiterVars,
                   batchRestVars, configVars, sessionVars, fanoutVars, rerunVars>>

DownloadNext ==
    \/ getFileMetadata
    \/ getStreamCall
    \/ writeToDisk
    \/ downloadAgain

DownloadSpec == DownloadInit /\ [][DownloadNext]_vars

\* The calls to the store among the calls of the run.
StoreCommands == {"HeadObject", "GetObject"}

\* The call was answered that the object does not exist.
Absent(c) ==
    \/ c.command = "HeadObject" /\ IsNotFound(c.answer.name)
    \/ c.command = "GetObject" /\ c.answer.name \in {"noBody", "NoSuchKey"}

\* C24: in a download a not-found answer for the object, from the metadata
\* lookup or from the get, is terminal: it is the last call to the store for
\* that object and the operation has failed with it.
C24_NotFoundIsTerminal ==
    \A i \in DOMAIN calls :
        Absent(calls[i]) =>
            /\ \A j \in DOMAIN calls : j > i => calls[j].command \notin StoreCommands
            /\ dlPc = "thrown"

\* Both runs of the download are over.
BothRunsEnded == firstRun # NoRun /\ dlPc \in {"returned", "thrown"}

\* A call that failed inside a retry loop: the store answered neither with
\* the result nor, to HeadObject, that the object does not exist.
FailedAttempt(c) ==
    /\ c.command \in StoreCommands
    /\ c.answer.name # "ok"
    /\ ~(c.command = "HeadObject" /\ IsNotFound(c.answer.name))

\* The failed attempts of the run on which the run did not end.
NonFinalFailures ==
    {i \in DOMAIN calls : FailedAttempt(calls[i]) /\ (i < Len(calls) \/ dlPc # "thrown")}

\* The HeadObject answers of the run that lacked a ContentType, each of which
\* is told with one logger.warn whatever the verbosity.
MissingContentTypes ==
    {i \in DOMAIN calls : /\ calls[i].command = "HeadObject"
                          /\ calls[i].answer.name = "ok"
                          /\ calls[i].answer.data[1].mimeType = <<>>}

\* The last maxAttempts calls of the run are failed attempts of one command,
\* made in one retry loop.
FinalFailure ==
    /\ Len(calls) >= maxAttempts
    /\ \A i \in (Len(calls) - maxAttempts + 1)..Len(calls) :
        /\ FailedAttempt(calls[i])
        /\ calls[i].command = calls[Len(calls)].command
    /\ IF calls[Len(calls)].command = "GetObject"
       THEN getAttempt = maxAttempts ELSE metaAttempt = maxAttempts

StreamedBody ==
    LET gets == {i \in DOMAIN calls : calls[i].command = "GetObject"}
        last == CHOOSE i \in gets : \A j \in gets : j <= i
    IN  calls[last].answer.data[1]

\* The calls of the run that wrote to the destination path.
Writes(route) == {i \in DOMAIN calls : calls[i].command = route}

\* C29: a downloadToDisk that has returned has written the object by exactly
\* one route. When the store reported a content length above 0 and at most
\* 200 MiB, the whole object was read into a buffer and written with one
\* writeFile, and nothing was piped; otherwise (a length above 200 MiB, 0, or
\* none) the stream was piped to the destination, nothing was buffered and
\* writeFile was not called.
C29_OneWriteRoute ==
    dlPc = "returned" =>
        LET n == fileMetadata.contentLength
            small == n # <<>> /\ 0 < n[1] /\ n[1] <= 200 * 1024 * 1024
        IN  /\ Len(written) = 1
            /\ written[1].bytes = StreamedBody
            /\ IF small
               THEN /\ written[1].route = "writeFile"
                    /\ fileBuffer = <<StreamedBody>>
                    /\ Cardinality(Writes("writeFile")) = 1
                    /\ Writes("pipeline") = {}
               ELSE /\ written[1].route = "pipeline"
                    /\ fileBuffer = <<>>
                    /\ Cardinality(Writes("pipeline")) = 1
                    /\ Writes("writeFile") = {}

\* An object reported with exactly 200 MiB was buffered and written with
\* writeFile, although its stream was empty.
C29_Witness ==
    /\ dlPc = "returned"
    /\ fileMetadata.contentLength = <<BufferLimit>>
    /\ written = <<[route |-> "writeFile", bytes |-> <<>>]>>

\* moveFile and renameFile: copyFile, then deleteFile of the original.
Moves == {"moveFile", "renameFile"}

\* The DeleteObject calls that failed: all of them, but the last one of an
\* operation that has returned.
DeleteFaults == sent["DeleteObject"] - (IF pc = "returned" THEN 1 ELSE 0)

\* The CopyObject calls that succeeded: those that did not fail.
CopySuccesses == sent["CopyObject"] - (faults - DeleteFaults)

\* C28: in moveFile and renameFile the delete of the original is issued only
\* after the copy call has succeeded: while no CopyObject call has succeeded,
\* however many have failed, no DeleteObject call has been issued and the
\* operation has not returned; every DeleteObject call follows the one
\* successful CopyObject call, after which no copy is made again.
C28_DeleteOnlyAfterCopy ==
    op \in Moves =>
        /\ CopySuccesses \in {0, 1}
        /\ CopySuccesses = 0 =>
              /\ sent["DeleteObject"] = 0
              /\ pc \in {"copyFile", "thrown"}
              /\ result = <<>>
        /\ sent["DeleteObject"] > 0 =>
              /\ CopySuccesses = 1
              /\ pc \in {"deleteFile", "returned", "thrown"}
        /\ pc = "copyFile" => CopySuccesses = 0
        /\ pc = "deleteFile" => CopySuccesses = 1

\* A move whose copy failed twice before it succeeded, and whose delete failed
\* once before the original was deleted.
C28_Witness ==
    /\ op = "moveFile"
    /\ pc = "returned"
    /\ sent["CopyObject"] = 3
    /\ sent["DeleteObject"] = 2
    /\ result = <<[success |-> TRUE, originalDeleted |-> TRUE]>>

\* C27: completion is a single retried call. Once CompleteMultipartUpload
\* has been sent for a session, then, however the call is answered, no new
\* session is opened, the session is not aborted, and every further
\* CompleteMultipartUpload call names the same session and the same part
\* list; there are at most maxAttempts such calls.
C27_CompletionRetriedAlone ==
    Len(completeLog) >= 1 =>
        LET first == completeLog[1]
        IN  /\ sent["CreateMultipartUpload"] = first.UploadId
            /\ \A i \in DOMAIN abortLog : abortLog[i] # <<first.UploadId>>
            /\ \A i \in DOMAIN completeLog :
                /\ completeLog[i].UploadId = first.UploadId
                /\ completeLog[i].Parts = first.Parts
            /\ Len(completeLog) <= maxAttempts

\* The chunks the for-await loop of the current attempt has been given by
\* the iterable, in order: those of the parts uploaded and the one in hand.
Yielded ==
    [k \in 1..Len(parts) |-> parts[k].ETag.Body]
        \o (IF pc = "uploadPartWithRetry" THEN <<chunk>> ELSE <<>>)

\* The source pieces the generator has read so far, joined.
PiecesRead == Concat(SubSeq(SourcePieces(file), 1, fileChunks.pos))

\* C26: streamToIterable over the pieces of a source of L bytes in all, with
\* part size S. Every chunk it yields has exactly S bytes, but possibly the
\* last, yielded after the source has ended, which has more than 0 and at
\* most S; the chunks yielded so far, joined in order, are the first bytes of
\* the source, and when the generator has run to its end there are ceil(L/S)
\* of them and they are all of the source (none for L = 0); and the bytes
\* retained when a piece has been processed, those carried into the next read
\* or to the final yield, are fewer than S.
C26_StreamToIterable ==
    fileChunks.kind = "generator" =>
        LET L == file.len
            S == maxUploadPartSize
            n == Len(Yielded)
            g == fileChunks
        IN  /\ \A k \in 1..n :
                IF k = n /\ g.at \in {"final", "done"}
                THEN 0 < Len(Yielded[k]) /\ Len(Yielded[k]) <= S
                ELSE Len(Yielded[k]) = S
            /\ n <= CeilDiv(L, S)
            /\ Len(Concat(Yielded)) <= L
            /\ Concat(Yielded) = SubSeq(Content(L), 1, Len(Concat(Yielded)))
            /\ n > 0 /\ g.at \in {"inner", "final"} =>
                  /\ Concat(SubSeq(Yielded, 1, n - 1)) \o g.buf = PiecesRead
                  /\ Yielded[n] = SubSeq(g.buf, 1, Min(S, Len(g.buf)))
            /\ g.at = "inner" =>
                  /\ g.pos >= 1
                  /\ Len(g.buf) - Len(SourcePieces(file)[g.pos]) < S
            /\ g.at = "final" => Len(g.buf) < S /\ g.pos = Len(SourcePieces(file))
            /\ pc = "completeMultipartUpload" /\ Cardinality(sessions) = 1 =>
                  /\ g.at = "done"
                  /\ n = CeilDiv(L, S)
                  /\ Concat(Yielded) = Content(L)
                  /\ L = 0 => Yielded = <<>>
                  /\ Len(g.buf) < S

\* A source of 3 bytes read in pieces of 2 with part size 2 has been yielded
\* in two chunks, the second of 1 byte, and the generator has ended.
C26_Witness ==
    /\ fileChunks.kind = "generator"
    /\ pc = "completeMultipartUpload"
    /\ Cardinality(sessions) = 1
    /\ file.len = 3 /\ file.piece = 2 /\ maxUploadPartSize = 2
    /\ Yielded = <<<<1, 2>>, <<3>>>>

\* The entries of all pages of the listing, in the order of the pages.
AllKeys == Concat([k \in 1..Len(listing) |-> listing[k].Contents])

\* The folder prefixes of the keys of all pages: for every "/" in a key, the
\* key up to it.
AllFolders ==
    UNION {{SubSeq(AllKeys[n], 1, i) :
                i \in {j \in 1..Len(AllKeys[n]) : AllKeys[n][j] = Slash}} :
            n \in DOMAIN AllKeys}

\* The items are in the order of the comparator: none comes before an
\* earlier one.
InOrder(items) ==
    \A i, j \in 1..Len(items) :
        i < j => ~ComesBefore(items[j], items[i], listOptions.compareFn)

\* What a listItems that has returned is to return: in grouped mode every
\* folder prefix that passes the filter, once, and for files every key that
\* is among `wanted`, as often as the pages hold it; in the comparator's
\* order.
Lists(wanted) ==
    LET items == result[1].items
    IN  /\ InOrder(items)
        /\ IF listOptions.directoriesOnly
           THEN /\ \A i, j \in 1..Len(items) : i # j => items[i] # items[j]
                /\ Range(items) = {f \in AllFolders : PassesFilter(f, listOptions.filterFn)}
           ELSE \A x \in Range(AllKeys) \cup Range(items) :
                    Occurrences(items, x) =
                        IF x \in wanted THEN Occurrences(AllKeys, x) ELSE 0

C32_StreamedUploadIntact ==
    (op = "uploadFile" /\ pc = "returned" /\ fileChunks.kind = "generator") =>
        LET c == completeLog[Len(completeLog)]
        IN  /\ Len(c.Parts) = CeilDiv(file.len, maxUploadPartSize)
            /\ \A k \in 1..Len(c.Parts) : c.Parts[k].PartNumber = k
            /\ Concat([k \in 1..Len(c.Parts) |-> c.Parts[k].ETag.Body]) = Content(file.len)

\* C34: every CompleteMultipartUpload call carries at least one part, also
\* for an empty stream of unknown size, for an empty resident payload with a
\* larger sizeHintBytes, and in a retried attempt.
C34_CompletionHasParts ==
    \A i \in DOMAIN completeLog : completeLog[i].Parts # <<>>

\* C35: an AbortMultipartUpload call is issued only for the session opened
\* in the current attempt: it names an upload id (not undefined, as when the
\* CreateMultipartUpload call itself failed), the session it names was not
\* completed successfully, and no session is named by two abort calls.
C35_AbortOnlyOpenedSession ==
    /\ \A i \in DOMAIN abortLog :
        /\ abortLog[i] # <<>>
        /\ abortLog[i][1] \in sessions
        /\ ~(pc = "returned" /\ completeLog[Len(completeLog)].UploadId = abortLog[i][1])
    /\ \A i, j \in DOMAIN abortLog : i # j => abortLog[i] # abortLog[j]

\* C39: the retry loop ends for every configured maxAttempts, also 0 and a
\* negative one: the exhaustion test is not skipped over, so a simpleUpload
\* all of whose attempts have failed, and that has made as many attempts as
\* maxAttempts or more, has thrown.
C39_ExhaustionNotSkipped ==
    (pc \in {"simpleUpload", "thrown"} /\ attempt >= 1 /\ faults = attempt
        /\ attempt >= maxAttempts) => pc = "thrown"

\* C40: the retry state belongs to one logical operation. In listItems the
\* attempt counter starts again at 0 for every page: it counts the failed
\* fetches of the page being fetched only, so that every page has all
\* maxAttempts attempts whatever failed before it, and listItems throws only
\* when one page has failed maxAttempts times; a fetch that is repeated
\* carries the token of the failed one (the one the last fetched page
\* returned). In confirmFilesExist every file has a counter of its own: a
\* file's check throws when that file's calls have failed maxAttempts times,
\* whatever the calls for the other files did; then the whole check rejects
\* and returns nothing, no partial list of missing files.
C40_RetryStatePerOperation ==
    /\ op = "listItems" =>
          LET fetched == sent["ListObjectsV2"] - faults
          IN  /\ attempt <= maxAttempts
              /\ sent["ListObjectsV2"] <= Len(listing) * maxAttempts
              /\ pc = "listItems" =>
                    /\ attempt < maxAttempts
                    /\ attempt <= faults
                    /\ fetched < Len(listing)
                    /\ params.ContinuationToken = IF fetched = 0 THEN <<>> ELSE <<fetched + 1>>
              /\ pc = "thrown" => attempt = maxAttempts /\ faults >= maxAttempts
              /\ pc = "returned" => fetched = Len(listing)
    /\ batchOp = "confirmFilesExist" =>
          /\ \A i \in Items :
                /\ headAttempt[i] <= maxAttempts
                /\ headFaults[i] <= headAttempt[i]
                /\ status[i] = "threw" <=> headFaults[i] = maxAttempts
                /\ status[i] = "pending" => headFaults[i] = headAttempt[i]
          /\ batchPc = "thrown" <=> \E i \in Items : status[i] = "threw"
          /\ batchPc = "thrown" => batchResult = <<>> /\ batchThrown # <<>>
          /\ batchPc = "returned" =>
                /\ batchThrown = <<>>
                /\ \A i \in Items : status[i] = "done"

\* A listing of three pages, each fetched at its second attempt with
\* maxAttempts = 2: three failures in all, more than maxAttempts, and no throw.
C40_Witness ==
    /\ op = "listItems"
    /\ pc = "returned"
    /\ maxAttempts = 2
    /\ Len(listing) = 3
    /\ faults = 3
    /\ sent["ListObjectsV2"] = 6

\* C33: retries do not multiply across the nested retry loops of uploadFile.
\* No chunk of the payload gets more than maxAttempts UploadPart calls, so
\* that all the chunks together get no more than maxAttempts calls each, and
\* no more than maxAttempts CreateMultipartUpload calls are sent.
C33_RetriesDoNotMultiply ==
    op = "uploadFile" =>
        /\ sent["UploadPart"] <= CeilDiv(file.len, maxUploadPartSize) * maxAttempts
        /\ sent["CreateMultipartUpload"] <= maxAttempts

\* Upload u submits a further part to the limiter.
SubmitsPart(u) ==
    /\ issueCall
    /\ lastCommand'[u] = "UploadPart"
    /\ submitOrder' = Append(submitOrder, u)

\* C37: the part uploads of one multipart transfer execute concurrently. While
\* a part of the transfer is in the limiter, waiting or in flight, the
\* transfer may submit its next part, so that one transfer can occupy more
\* than one slot.
C37_PartsRunConcurrently ==
    \A u \in Uploaders :
        (lastCommand[u] = "UploadPart" /\ phase[u] \in {"queued", "running"})
            => ENABLED SubmitsPart(u)

\* The uploads waiting in backoff: their scheduled call has failed and the
\* next attempt has not been submitted.
InBackoff == {u \in Uploaders : phase[u] = "failed" /\ Scheduled(lastCommand[u])}

\* The jobs waiting in the limiter's queue.
Waiting == {queue[i] : i \in DOMAIN queue}

\* C38: a limiter slot is held only while a store call is in flight. Every
\* running job has its call in flight; an upload in backoff after a failed
\* call holds no slot and waits in no queue; when every upload has returned or
\* thrown no slot is occupied and no job waits. Hence the limiter does not
\* deadlock: while a job waits, either it can be started or a running job's
\* call is in flight and can be answered.
C38_SlotHeldOnlyInFlight ==
    /\ Running \subseteq InFlight
    /\ Cardinality(Running) <= maxConcurrent
    /\ InBackoff \cap (Running \cup Waiting) = {}
    /\ (\A u \in Uploaders : phase[u] \in {"returned", "thrown"})
           => Running = {} /\ queue = <<>>
    /\ queue # <<>> =>
           \/ ENABLED limiterStart
           \/ \E u \in Running : ENABLED AnswerCall(u)

\* More uploads than the limiter has slots have all thrown after a failed
\* PutObject, and no slot is occupied.
C38_Witness ==
    /\ maxConcurrent < Cardinality(Uploaders)
    /\ \A u \in Uploaders : phase[u] = "thrown" /\ lastCommand[u] = "PutObject"
    /\ Running = {}
    /\ queue = <<>>

\* C36: session isolation among concurrent multipart uploads and their
\* retried attempts. Every UploadPart call carries the upload id of the
\* session that the current attempt of its own upload has opened, and that
\* session has received neither its completion nor its abort call; every
\* CompleteMultipartUpload call names the session of its own attempt and lists
\* only tags that part uploads under that upload id have returned, one per
\* chunk and in the order of the part numbers.
C36_SessionIsolation ==
    /\ lastCall.command = "UploadPart" =>
          /\ lastCall.UploadId = <<<<lastCall.by, lastCall.attempt>>>>
          /\ lastCall.UploadId[1] \in DOMAIN store
          /\ store[lastCall.UploadId[1]] = "open"
    /\ lastCall.command = "CompleteMultipartUpload" =>
          /\ lastCall.UploadId = <<<<lastCall.by, lastCall.attempt>>>>
          /\ lastCall.UploadId[1] \in DOMAIN store
          /\ Len(lastCall.Parts) = ChunksOf(lastCall.by)
          /\ \A k \in DOMAIN lastCall.Parts :
                /\ lastCall.Parts[k].PartNumber = k
                /\ lastCall.Parts[k].ETag.UploadId = lastCall.UploadId[1]
                /\ lastCall.Parts[k].ETag.PartNumber = k

\* An upload completes the session of its second attempt, its first session
\* aborted, while every other upload has a session open and is uploading parts
\* under it.
C36_Witness ==
    /\ lastCall.command = "CompleteMultipartUpload"
    /\ lastCall.attempt = 2
    /\ <<lastCall.by, 1>> \in DOMAIN store
    /\ store[<<lastCall.by, 1>>] = "aborted"
    /\ \A v \in Uploaders \ {lastCall.by} :
          /\ transfers[v].pc = "uploadPartWithRetry"
          /\ transfers[v].uploadId # <<>>
          /\ store[transfers[v].uploadId[1]] = "open"

\* The listed files whose downloadToDisk has been started.
Attempted == {i \in Listed : downloads[i] \in {"running", "done", "failed"}}

\* At most 6 downloadToDisk jobs are in flight, whatever the number of listed
\* files; a job that has returned or thrown holds no slot; the two limiters
\* count their own jobs only: a waiting download starts whenever fewer than 6
\* downloads run, and a waiting upload whenever fewer than maxConcurrent
\* uploads run.
DownloadSlots ==
    /\ Cardinality(RunningDownloads) <= DownloadConcurrency
    /\ Cardinality(Running) <= maxConcurrent
    /\ \A i \in RunningDownloads : downloads[i] = "running"
    /\ \A i \in DOMAIN downloadQueue : downloads[downloadQueue[i]] = "queued"
    /\ (downloadQueue # <<>> /\ Cardinality({i \in Listed : downloads[i] = "running"})
                                   < DownloadConcurrency) => ENABLED downloadStart
    /\ (queue # <<>> /\ Cardinality({u \in Uploaders : phase[u] = "running"}) < maxConcurrent)
           => ENABLED limiterStart

\* C31: in downloadFolderToDisk at most 6 downloadToDisk executions are in
\* flight at any moment; the download limiter and the upload limiter do not
\* share slots; a failed download releases its slot, so that every listed file
\* is eventually attempted.
C31_DownloadLimiter ==
    /\ []DownloadSlots
    /\ <>(Attempted = Listed)

\* Seven files were listed: the first download has failed, the six others are
\* in flight, the seventh in the slot the first has released, while the
\* upload's call occupies the only slot of the upload limiter.
C31_Witness ==
    /\ Cardinality(Listed) > DownloadConcurrency
    /\ downloads[1] = "failed"
    /\ Cardinality(RunningDownloads) = DownloadConcurrency
    /\ Cardinality(Running) = maxConcurrent

\* C11: the PutObject and UploadPart calls in flight from one UploadManager,
\* counted over all its concurrent uploads, never number more than
\* maxUploadConcurrency (4 when it is not given), and a call that the limiter
\* has not started is waiting in its queue, not in flight.
C11_InFlightBound ==
    /\ Cardinality({u \in InFlight : lastCommand[u] \in {"PutObject", "UploadPart"}})
         <= maxConcurrent
    /\ \A i \in 1..Len(submitOrder) : submitOrder[i] \notin InFlight

C11_Witness ==
    /\ maxConcurrent = 1
    /\ \E u \in InFlight : lastCommand[u] = "UploadPart"
    /\ \E u \in Uploaders : phase[u] = "queued" /\ lastCommand[u] = "PutObject"

====
